---- MODULE Spec2Model ----
(***************************************************************************)
(* A model of BunOpenAPI (src/src/index.js): the router built from an      *)
(* OpenAPI document, its handler registries, routes() and the per-request  *)
(* pipeline of a route entry (query, path and body validation, the         *)
(* security chain, dispatch, response validation, the error responder).    *)
(*                                                                         *)
(* Strings whose characters matter (parameter values) are sequences of     *)
(* one-character strings, so that Ajv's coercion parses them.  A JSON      *)
(* value is a record [t, s, n]: t is its type, s the characters of a       *)
(* string, n the number (or 0/1 for a boolean).                            *)
(***************************************************************************)
EXTENDS Integers, Sequences, FiniteSets, TLC

VARIABLES
    definition,               \* this.definition: the OpenAPI document
    strictResponseValidation, \* this.strictResponseValidation
    development,              \* this.development
    operations,               \* this.operations: operationId -> handler
    securityHandlers,         \* this.securityHandlers: schemeName -> handler
    errorHandler,             \* this._errorHandler
    table,                    \* the route table returned by the last routes()
    ajv,                      \* this.ajv: the keys added with addSchema
    buildConsole,             \* what the calls of routes() logged with console.warn
    thrown,                   \* the exception on its way to the caller of register,
                              \* registerSecurity or routes ("" when there is none)
    regAfterBuild,            \* history: operationIds registered since that routes()
    removed,                  \* history: operationIds whose registration was removed
    notFoundHandler,          \* this._notFoundHandler
    formData,                 \* the form a request body is read from, and the object
                              \* built from it
    spec,                     \* this.spec: the schema nodes of the document in full,
                              \* and what was compiled from them
    corsOption,               \* the cors option the constructor was given
    CORS_HEADERS,             \* this.CORS_HEADERS
    errors,                   \* validator.errors of the compiled validators of each route
    req,                      \* the request a route entry is handling
    twin                      \* the same request in the router that differs from
                              \* this one in the strict flag only

vars == <<definition, strictResponseValidation, development, operations, securityHandlers,
          errorHandler, table, ajv, buildConsole, thrown, regAfterBuild, removed,
          notFoundHandler, formData, spec, corsOption, CORS_HEADERS, errors, req, twin>>

Null == "null"

\* the JavaScript values passed to the registration methods
JsString(chars) == [type |-> "string", v |-> chars]
JsNumber(digits) == [type |-> "number", v |-> digits]
JsFunction(fn) == [type |-> "function", v |-> fn]
JsObject == [type |-> "object", v |-> "{}"]
JsNull == [type |-> "object", v |-> "null"]
JsUndefined == [type |-> "undefined", v |-> ""]

\* typeof x, and !x
TypeOf(x) == x.type
\* a test that would take the empty string and 0 for truthy (C20)
NotNullish(x) == x = JsNull \/ x = JsUndefined
Not(x) ==
    \/ x = JsNull \/ x = JsUndefined
    \/ x = JsString("") \/ x = JsNumber("0")

----------------------------------------------------------------------------
(* JSON values                                                             *)

Names == {"id", "dryRun", "name"}

Absent == [t |-> "absent", s |-> <<>>, n |-> 0]
StrV(chars) == [t |-> "string", s |-> chars, n |-> 0]
IntV(k) == [t |-> "integer", s |-> <<>>, n |-> k]
BoolV(b) == [t |-> "boolean", s |-> <<>>, n |-> IF b THEN 1 ELSE 0]

EmptyObj == [k \in Names |-> Absent]
Obj1(k1, v1) == [EmptyObj EXCEPT ![k1] = v1]

\* parsed JSON data: an object, or a primitive (the number 0 stands for the
\* falsy primitives), or nothing
JObject(o) == [k |-> "object", o |-> o]
JZero == [k |-> "number", o |-> EmptyObj]
JNone == [k |-> "none", o |-> EmptyObj]

Digits == <<"0", "1", "2", "3", "4", "5", "6", "7", "8", "9">>
IsDigit(c) == \E i \in 1..10 : Digits[i] = c
DigitVal(c) == (CHOOSE i \in 1..10 : Digits[i] = c) - 1

\* typeof data == "string" && data && data == +data, for decimal digit strings
IsNumeric(chars) == Len(chars) > 0 /\ \A i \in 1..Len(chars) : IsDigit(chars[i])

RECURSIVE ParseNumber(_)
ParseNumber(chars) ==
    IF chars = <<>> THEN 0
    ELSE 10 * ParseNumber(SubSeq(chars, 1, Len(chars) - 1)) + DigitVal(chars[Len(chars)])

RECURSIVE NumberToString(_)
NumberToString(k) ==
    IF k < 10 THEN <<Digits[k + 1]>>
    ELSE Append(NumberToString(k \div 10), Digits[(k % 10) + 1])

TrueChars == <<"t", "r", "u", "e">>
FalseChars == <<"f", "a", "l", "s", "e">>

\* Ajv with coerceTypes: true: the value a property holds after the type
\* keyword ran, and whether the keyword passed.  An undeclared type ("")
\* accepts anything.
CoerceType(type, v) ==
    CASE type = "" -> [ok |-> TRUE, v |-> v]
      [] type = v.t -> [ok |-> TRUE, v |-> v]
      [] type = "integer" /\ v.t = "string" /\ IsNumeric(v.s) ->
            [ok |-> TRUE, v |-> IntV(ParseNumber(v.s))]
      [] type = "integer" /\ v.t = "boolean" -> [ok |-> TRUE, v |-> IntV(v.n)]
      [] type = "string" /\ v.t = "integer" -> [ok |-> TRUE, v |-> StrV(NumberToString(v.n))]
      [] type = "string" /\ v.t = "boolean" ->
            [ok |-> TRUE, v |-> StrV(IF v.n = 1 THEN TrueChars ELSE FalseChars)]
      [] type = "boolean" /\ v.t = "string" /\ v.s \in {TrueChars, FalseChars} ->
            [ok |-> TRUE, v |-> BoolV(v.s = TrueChars)]
      [] type = "boolean" /\ v.t = "integer" /\ v.n \in {0, 1} ->
            [ok |-> TRUE, v |-> BoolV(v.n = 1)]
      [] OTHER -> [ok |-> FALSE, v |-> v]

\* An object schema: the names it requires (in order) and the declared type
\* of each property ("" when the property is not declared).
Schema(required, properties) == [required |-> required, properties |-> properties]
NoProps == [k \in Names |-> ""]

\* the errors of one validation, allErrors: true: the missing required
\* names in order, then the properties whose type keyword failed
NameOrder == <<"id", "dryRun", "name">>

RECURSIVE TypeErrors(_, _, _)
TypeErrors(schema, o, i) ==
    IF i > Len(NameOrder) THEN <<>>
    ELSE LET k == NameOrder[i]
             bad == o[k] # Absent /\ ~CoerceType(schema.properties[k], o[k]).ok
         IN (IF bad THEN <<[keyword |-> "type", instancePath |-> k,
                            message |-> "must be " \o schema.properties[k]]>>
             ELSE <<>>) \o TypeErrors(schema, o, i + 1)

RECURSIVE RequiredErrors(_, _, _)
RequiredErrors(schema, o, i) ==
    IF i > Len(schema.required) THEN <<>>
    ELSE (IF o[schema.required[i]] = Absent
          THEN <<[keyword |-> "required", instancePath |-> schema.required[i],
                  message |-> "must have required property"]>>
          ELSE <<>>) \o RequiredErrors(schema, o, i + 1)

\* validate(data): data is coerced in place, property by property, also
\* when the validation fails as a whole; validate.errors holds the errors
AjvValidate(schema, data) ==
    IF data.k # "object"
    THEN [valid |-> FALSE, data |-> data,
          errors |-> <<[keyword |-> "type", instancePath |-> "", message |-> "must be object"]>>]
    ELSE LET errs == RequiredErrors(schema, data.o, 1) \o TypeErrors(schema, data.o, 1)
             coerced == [k \in Names |->
                            IF data.o[k] = Absent THEN Absent
                            ELSE CoerceType(schema.properties[k], data.o[k]).v]
         IN [valid |-> errs = <<>>, data |-> JObject(coerced), errors |-> errs]

----------------------------------------------------------------------------
(* The OpenAPI document (options.definition, passed as an object)          *)

\* a schema node of the document: a $ref (ref # "") or an inline object
\* schema; def = FALSE stands for undefined (no schema at that place)
SchemaNode(required, properties) ==
    [def |-> TRUE, ref |-> "", required |-> required, properties |-> properties]
RefNode(pointer) == [def |-> TRUE, ref |-> pointer, required |-> <<>>, properties |-> NoProps]
NoSchema == [def |-> FALSE, ref |-> "", required |-> <<>>, properties |-> NoProps]

Param(name, in, required, type) ==
    [name |-> name, in |-> in, required |-> required, type |-> type]

\* a security requirement object: its keys in order, each with its scopes
Requirement(scheme, scopes) == <<[scheme |-> scheme, scopes |-> scopes]>>

MediaTypes == {"application/json", "multipart/form-data", "application/x-www-form-urlencoded"}
NoContent == [m \in MediaTypes |-> NoSchema]

Lit(n) == [k |-> "lit", n |-> n]
Brace(n) == [k |-> "brace", n |-> n]
Colon(n) == [k |-> "colon", n |-> n]

ItemSchema == SchemaNode(<<"id">>, [NoProps EXCEPT !["id"] = "integer"])

GetItem ==
    [operationId |-> "getItem",
     parameters |-> <<Param("id", "path", TRUE, "integer")>>,
     requestBody |-> NoContent,
     responses |-> <<[status |-> 200, schema |-> ItemSchema]>>,
     security |-> [declared |-> TRUE, value |-> <<>>]]

UpdateItem ==
    [operationId |-> "updateItem",
     parameters |-> <<Param("id", "path", TRUE, "integer"),
                      Param("dryRun", "query", TRUE, "boolean")>>,
     requestBody |-> [NoContent EXCEPT !["application/json"] =
                        SchemaNode(<<"name">>, [NoProps EXCEPT !["name"] = "string"])],
     responses |-> <<[status |-> 200, schema |-> RefNode(<<"#", "components", "schemas", "Item">>)],
                     [status |-> 204, schema |-> NoSchema]>>,
     security |-> [declared |-> FALSE, value |-> <<>>]]

Doc ==
    [paths |-> <<[path |-> <<Lit("items"), Brace("id")>>,
                  item |-> <<[method |-> "get", operation |-> GetItem],
                             [method |-> "put", operation |-> UpdateItem]>>]>>,
     components |-> <<[name |-> "Item", schema |-> ItemSchema]>>,
     security |-> <<Requirement("apiKey", <<>>), Requirement("bearerAuth", <<"write">>)>>]

OperationIds == {"getItem", "updateItem"}
SchemeNames == {"apiKey", "bearerAuth"}

----------------------------------------------------------------------------
(* Compilation                                                             *)

\* a compiled validator; def = FALSE is null (nothing compiled)
Validator(schema) == [def |-> TRUE, schema |-> Schema(schema.required, schema.properties)]
NoValidator == [def |-> FALSE, schema |-> Schema(<<>>, NoProps)]

\* schema['$ref'].split('/').pop()
RefKey(node) == node.ref[Len(node.ref)]

RECURSIVE RequiredNames(_)
RequiredNames(params) ==
    IF params = <<>> THEN <<>>
    ELSE (IF Head(params).required THEN <<Head(params).name>> ELSE <<>>)
         \o RequiredNames(Tail(params))

_convertParamsToSchema(params) ==
    [def |-> TRUE, ref |-> "",
     required |-> RequiredNames(params),
     properties |-> [k \in Names |->
        IF \E i \in 1..Len(params) : params[i].name = k
        THEN params[CHOOSE i \in 1..Len(params) :
                        /\ params[i].name = k
                        /\ \A j \in (i + 1)..Len(params) : params[j].name # k].type
        ELSE ""]]

\* a compilation that would compile an unresolved $ref as a schema of its
\* own (C26)
ResolveSchemaCompilesRef(node, registry) ==
    IF node.ref # "" /\ RefKey(node) \in DOMAIN registry
    THEN Validator(registry[RefKey(node)])
    ELSE Validator(node)
\* a schema that is a $ref is looked up in the Ajv registry (undefined when
\* the key was never added), any other schema is compiled inline
ResolveSchema(node, registry) ==
    IF node.ref # ""
    THEN IF RefKey(node) \in DOMAIN registry THEN Validator(registry[RefKey(node)])
         ELSE NoValidator
    ELSE Validator(node)

\* the request-body schema: application/json, else multipart/form-data,
\* else application/x-www-form-urlencoded
BodySchema(content) ==
    IF content["application/json"].def THEN content["application/json"]
    ELSE IF content["multipart/form-data"].def THEN content["multipart/form-data"]
    ELSE content["application/x-www-form-urlencoded"]

IsQueryParam(p) == p.in = "query"
IsPathParam(p) == p.in = "path"

_compileValidators(operation, registry) ==
    LET queryParams == SelectSeq(operation.parameters, IsQueryParam)
        pathParams == SelectSeq(operation.parameters, IsPathParam)
        schema == BodySchema(operation.requestBody)
    IN [query |-> IF Len(queryParams) > 0
                  THEN Validator(_convertParamsToSchema(queryParams)) ELSE NoValidator,
        path |-> IF Len(pathParams) > 0
                 THEN Validator(_convertParamsToSchema(pathParams)) ELSE NoValidator,
        body |-> IF schema.def THEN ResolveSchema(schema, registry) ELSE NoValidator,
        responses |-> [i \in 1..Len(operation.responses) |->
            [status |-> operation.responses[i].status,
             validator |-> IF operation.responses[i].schema.def
                           THEN ResolveSchema(operation.responses[i].schema, registry)
                           ELSE NoValidator]]]

\* openApiPath.replace(/{([^}]+)}/g, ":$1")
BunPath(openApiPath) ==
    [i \in 1..Len(openApiPath) |->
        IF openApiPath[i].k = "brace" THEN Colon(openApiPath[i].n) ELSE openApiPath[i]]

HttpMethods == {"get", "post", "put", "delete", "patch", "head", "options", "trace"}

\* method.toUpperCase()
Upper(method) ==
    CASE method = "get" -> "GET" [] method = "post" -> "POST" [] method = "put" -> "PUT"
      [] method = "delete" -> "DELETE" [] method = "patch" -> "PATCH"
      [] method = "head" -> "HEAD" [] method = "options" -> "OPTIONS"
      [] method = "trace" -> "TRACE" [] OTHER -> method

\* a router that would add the operation's list to the global one (C6 tells
\* it from the code's `??`)
EffectiveSecurityMerged(operation, globalSecurity) == globalSecurity \o operation.security.value
\* operation.security ?? globalSecurity
EffectiveSecurity(operation, globalSecurity) ==
    IF operation.security.declared THEN operation.security.value ELSE globalSecurity

----------------------------------------------------------------------------
(* routes(): the route table                                               *)

Put(f, k, v) == [x \in (DOMAIN f) \cup {k} |-> IF x = k THEN v ELSE f[x]]

NoValidators ==
    [query |-> NoValidator, path |-> NoValidator, body |-> NoValidator, responses |-> <<>>]

RouteKey(bunPath, method) == [path |-> bunPath, method |-> method]
CatchAll == RouteKey(<<Lit("*")>>, "*")

\* routes[bunPath][upper] = async (req) => {...}: what the closure captures
OperationEntry(openApiPath, method, operation, registry, globalSecurity) ==
    [kind |-> "operation", openApiPath |-> openApiPath,
     operationId |-> operation.operationId,
     validators |-> _compileValidators(operation, registry),
     effectiveSecurity |-> EffectiveSecurity(operation, globalSecurity)]

OptionsEntry(openApiPath) ==
    [kind |-> "options", openApiPath |-> openApiPath, operationId |-> "",
     validators |-> NoValidators, effectiveSecurity |-> <<>>]

NotFoundEntry ==
    [kind |-> "notfound", openApiPath |-> <<>>, operationId |-> "",
     validators |-> NoValidators, effectiveSecurity |-> <<>>]

\* for (const method in pathItem): methods that are no HTTP method and
\* operations without an operationId get no entry
RECURSIVE AddMethods(_, _, _, _, _)
AddMethods(routes, openApiPath, item, registry, globalSecurity) ==
    IF item = <<>> THEN routes
    ELSE LET m == Head(item)
             next == IF m.method \in HttpMethods /\ m.operation.operationId # ""
                     THEN Put(routes, RouteKey(BunPath(openApiPath), Upper(m.method)),
                              OperationEntry(openApiPath, m.method, m.operation,
                                             registry, globalSecurity))
                     ELSE routes
         IN AddMethods(next, openApiPath, Tail(item), registry, globalSecurity)

\* for (const openApiPath in doc.paths): the methods, then the preflight entry
RECURSIVE AddPaths(_, _, _, _)
AddPaths(routes, paths, registry, globalSecurity) ==
    IF paths = <<>> THEN routes
    ELSE LET p == Head(paths)
             withMethods == AddMethods(routes, p.path, p.item, registry, globalSecurity)
             withOptions == Put(withMethods, RouteKey(BunPath(p.path), "OPTIONS"),
                                OptionsEntry(p.path))
         IN AddPaths(withOptions, Tail(paths), registry, globalSecurity)

\* "Pre-build to detect conflicts": routes is the object created at 224,
\* which has no key yet while this loop runs
RECURSIVE ConflictWarnings(_, _, _)
ConflictWarnings(routes, pathMap, paths) ==
    IF paths = <<>> THEN {}
    ELSE LET openApiPath == Head(paths).path
             bunPath == BunPath(openApiPath)
             conflict == /\ \E key \in DOMAIN routes : key.path = bunPath
                         /\ bunPath \in DOMAIN pathMap
                         /\ pathMap[bunPath] # openApiPath
         IN (IF conflict THEN {[warn |-> "Route conflict!", path |-> bunPath, method |-> ""]}
             ELSE {})
            \cup ConflictWarnings(routes, Put(pathMap, bunPath, openApiPath), Tail(paths))

\* console.warn(`Missing operationId on ${upper} ${bunPath}`)
MissingIdWarnings(paths) ==
    UNION {{[warn |-> "Missing operationId", path |-> BunPath(paths[i].path),
             method |-> Upper(paths[i].item[j].method)] :
               j \in {m \in 1..Len(paths[i].item) :
                         /\ paths[i].item[m].method \in HttpMethods
                         /\ paths[i].item[m].operation.operationId = ""}} :
           i \in 1..Len(paths)}

BuildWarnings(doc) == ConflictWarnings(<<>>, <<>>, doc.paths) \cup MissingIdWarnings(doc.paths)

BuildRoutes(doc, registry) ==
    Put(AddPaths(<<>>, doc.paths, registry, doc.security), CatchAll, NotFoundEntry)

\* this.ajv.addSchema(patched, schemaName) for each component schema, in
\* order; addSchema throws when the key is already registered
RECURSIVE AddSchemas(_, _)
AddSchemas(registry, components) ==
    IF components = <<>> THEN [registry |-> registry, threw |-> FALSE]
    ELSE IF Head(components).name \in DOMAIN registry
         THEN [registry |-> registry, threw |-> TRUE]
         ELSE AddSchemas(Put(registry, Head(components).name, Head(components).schema),
                         Tail(components))

----------------------------------------------------------------------------
(* Responses and the error responder                                       *)

\* a response body
ErrorBody(code, message, details) ==
    [kind |-> "error", o |-> EmptyObj, code |-> code, message |-> message, details |-> details]
JsonBody(data) ==
    [kind |-> data.k, o |-> data.o, code |-> "", message |-> "", details |-> <<>>]
OpaqueBody(tag) ==
    [kind |-> tag, o |-> EmptyObj, code |-> "", message |-> "", details |-> <<>>]

\* a Response: cors is TRUE when the configured CORS headers were set on it,
\* by names the code that built it
Response(status, contentType, body, cors, by) ==
    [status |-> status, contentType |-> contentType, body |-> body, cors |-> cors, by |-> by]
NoResponse == Response(0, <<>>, OpaqueBody("none"), FALSE, "none")

ErrorInfo(status, code, message, details) ==
    [status |-> status, code |-> code, message |-> message, details |-> details]
NoError == ErrorInfo(0, "", "", <<>>)

\* details.map(e => ({ message: e.message, keyword: e.keyword }))
Redact(details) ==
    [i \in 1..Len(details) |-> [message |-> details[i].message, keyword |-> details[i].keyword]]

\* a responder that would hand on the details as they are (C30)
SafeDetailsUnredacted(details) == details
SafeDetails(details) == IF development THEN details ELSE Redact(details)

TerseMessage(status) ==
    IF status = 401 THEN "Authentication required or token is invalid."
    ELSE IF status = 403 THEN "You are forbidden from accessing this resource."
    ELSE IF status = 404 THEN "Resource not found."
    ELSE IF status < 500 THEN "The request data is invalid or missing required parameters."
    ELSE "An unexpected server error occurred."

\* what the custom error handler can do when it is called: return a
\* Response, return a plain object, return nothing, or throw
FormatterOutcomes == {"response", "object", "undefined", "throws"}

\* "none": no custom error handler was registered when the error was built
NotFormatted == "none"

\* a responder whose terse body would keep the internal code (C15)
DefaultErrorResponseKeepsCode(status, code, message, details) ==
    LET isVerbose == development /\ Len(details) > 0
        body == IF ~isVerbose /\ status >= 400
                THEN ErrorBody(code, TerseMessage(status), <<>>)
                ELSE ErrorBody(code, message, IF isVerbose THEN SafeDetails(details) ELSE <<>>)
    IN Response(status, <<"application/json">>, body, TRUE, "default")
\* the built-in body
DefaultErrorResponse(status, code, message, details) ==
    LET isVerbose == development /\ Len(details) > 0
        body == IF ~isVerbose /\ status >= 400
                THEN ErrorBody("", TerseMessage(status), <<>>)
                ELSE ErrorBody(code, message, IF isVerbose THEN SafeDetails(details) ELSE <<>>)
    IN Response(status, <<"application/json">>, body, TRUE, "default")

\* formatted: what this._errorHandler did, NotFormatted if it was not called
_createErrorResponse(status, code, message, details, formatted) ==
    IF formatted = "response"
    THEN Response(418, <<"text/plain">>, OpaqueBody("custom"), TRUE, "errorHandler")
    ELSE IF formatted = "object"
    THEN Response(status, <<"application/json">>, OpaqueBody("custom"), TRUE, "errorHandler")
    ELSE DefaultErrorResponse(status, code, message, details)

----------------------------------------------------------------------------
(* The request a route entry handles                                       *)

\* req.pc: where the async route entry is suspended
\*   "idle"     no request yet
\*   "body"     await req.json() / await req.formData()
\*   "security" await authHandler(context, requiredScopes, securityContext)
\*   "handler"  await handler(context, securityContext)
\*   "errorHandler" await this._errorHandler({status, code, message, details})
\*   "done"     the entry returned req.resp
\*   "threw"    an exception left the entry: its promise is rejected
Idle ==
    [pc |-> "idle", key |-> CatchAll,
     router |-> "this",             \* the router whose entry handles it
     url |-> [pathSegments |-> <<>>, search |-> EmptyObj],  \* context.url, as sent
     query |-> EmptyObj,            \* context.query (the object the validator coerces)
     params |-> EmptyObj,           \* context.params
     contentType |-> <<>>,          \* the Content-Type header
     cookieHeader |-> <<>>,         \* the Cookie header, as sent
     cookies |-> <<>>,              \* context.cookies
     parsedBody |-> JNone,          \* let parsedBody = null
     parseFailed |-> FALSE,         \* req.json() / req.formData() threw
     body |-> JNone,                \* context.body
     idx |-> 0,                     \* position in effectiveSecurity
     securityContext |-> {},        \* the object passed to the handlers: the schemes
                                    \* whose write it holds
     written |-> {},                \* the schemes whose handler wrote into the
                                    \* context it was called with
     atEntry |-> {},                \* of the names it has still to look up, those
                                    \* that had a handler when it arrived
     log |-> <<>>,                  \* the calls made to registered handlers
     console |-> {},                \* what was logged with console.error / warn
     err |-> NoError,               \* the arguments of _createErrorResponse
     passed |-> NoError,            \* the object this._errorHandler was called with
     formatted |-> NotFormatted,    \* what this._errorHandler did
     resp |-> NoResponse]

\* "invoke": a registered handler is called; "resolve": it answered (result
\* tells how)
\* the request as the other router gets it
TwinOf(rq) == [rq EXCEPT !.router = "twin"]

Event(e, who, result) == [e |-> e, who |-> who, result |-> result]

\* Map.get: undefined (Null) when the key is not set
MapGet(map, key) == IF key \in DOMAIN map THEN map[key] ELSE Null
\* a Map whose delete would leave the entry (C19)
MapDeleteKeeps(map, key) == map
MapDelete(map, key) == [x \in (DOMAIN map) \ {key} |-> map[x]]

LookupSecurityHandler(schemeName) == MapGet(securityHandlers, schemeName)
\* a router that would only know the handlers registered before routes()
\* (C8 tells it from the code's read at request time)
LookupHandlerAtBuild(operationId) ==
    IF operationId \in regAfterBuild THEN Null ELSE MapGet(operations, operationId)
LookupHandler(operationId) == MapGet(operations, operationId)

\* return this._createErrorResponse(status, code, message, details): up to
\* `await this._errorHandler(...)` when a custom error handler is registered,
\* to the end otherwise
Fail(rq, status, code, message, details) ==
    IF errorHandler # Null
    THEN [rq EXCEPT !.pc = "errorHandler", !.err = ErrorInfo(status, code, message, details),
                    !.passed = ErrorInfo(status, code, message, SafeDetails(details))]
    ELSE [rq EXCEPT !.pc = "done",
                    !.err = ErrorInfo(status, code, message, details),
                    !.resp = _createErrorResponse(status, code, message, details, NotFormatted)]

\* the continuation of `await this._errorHandler(...)`
AfterErrorHandler(rq, formatted) ==
    [rq EXCEPT !.pc = "done",
               !.formatted = formatted,
               !.resp = _createErrorResponse(rq.err.status, rq.err.code, rq.err.message,
                                             rq.err.details, formatted),
               !.console = IF formatted = "throws"
                           THEN @ \cup {"Custom error handler threw an error"} ELSE @]

\* return a Response as it is
Return(rq, response) == [rq EXCEPT !.pc = "done", !.resp = response]

\* JavaScript truthiness of parsed JSON data
Truthy(data) == data.k = "object"

\* a Content-Type value is the sequence of its parts, the media type first
\* (<<>> when the header is absent): contentType.includes(media) and
\* contentType.startsWith(media)
Includes(contentType, media) == \E i \in 1..Len(contentType) : contentType[i] = media
StartsWith(contentType, media) == Len(contentType) > 0 /\ contentType[1] = media

JsonType == <<"application/json", "; charset=utf-8">>
FormType == <<"multipart/form-data", "; boundary=x">>

----------------------------------------------------------------------------
(* The route entry: routes[bunPath][upper] = async (req) => {...}          *)

Entry(rq) == table[rq.key]

\* validators.responses.get(statusCode): undefined when the status is not
\* documented
ResponseValidator(responses, status) ==
    IF \E i \in 1..Len(responses) : responses[i].status = status
    THEN [documented |-> TRUE,
          validator |-> responses[CHOOSE i \in 1..Len(responses) :
                                      responses[i].status = status].validator]
    ELSE [documented |-> FALSE, validator |-> NoValidator]

\* what a business handler can do when it is called
HandlerOutcomes ==
    {"echo", "missing", "falsy", "text", "noContent", "sse", "undocumented",
     "throws", "notResponse"}

\* the handler sees context.params and context.query; "echo" answers with them
Echo(rq) == [k \in Names |-> IF rq.params[k] # Absent THEN rq.params[k] ELSE rq.query[k]]

HandlerResponse(rq, outcome) ==
    CASE outcome = "echo" ->
            Response(200, <<"application/json">>, JsonBody(JObject(Echo(rq))), FALSE, "handler")
      [] outcome = "missing" ->
            Response(200, <<"application/json">>,
                     JsonBody(JObject(Obj1("name", StrV(<<"x">>)))), FALSE, "handler")
      [] outcome = "falsy" ->
            Response(200, <<"application/json">>, JsonBody(JZero), FALSE, "handler")
      [] outcome = "text" ->
            Response(200, <<"text/plain">>, OpaqueBody("text"), FALSE, "handler")
      [] outcome = "noContent" ->
            Response(204, <<>>, OpaqueBody("none"), FALSE, "handler")
      [] outcome = "sse" ->
            Response(200, <<"text/event-stream">>, OpaqueBody("stream"), FALSE, "handler")
      [] outcome = "undocumented" ->
            Response(404, <<"application/json">>,
                     JsonBody(JObject(Obj1("name", StrV(<<"x">>)))), FALSE, "handler")

\* await response.clone().json() when the content type says JSON, else null
ResponseData(response) ==
    IF Includes(response.contentType, "application/json")
       /\ response.body.kind \in {"object", "number"}
    THEN [k |-> response.body.kind, o |-> response.body.o]
    ELSE JNone

\* for (const [key, value] of Object.entries(this.CORS_HEADERS)) response.headers.set(key, value)
AttachCors(response) == [response EXCEPT !.cors = TRUE]

\* this.strictResponseValidation of the router that handles rq
StrictFlag(rq) ==
    IF rq.router = "twin" THEN ~strictResponseValidation ELSE strictResponseValidation

\* whether the response-validation block runs at all
ValidatesResponse(rq, response) ==
    /\ StrictFlag(rq)
    /\ Len(Entry(rq).validators.responses) > 0
    /\ ~StartsWith(response.contentType, "text/event-stream")

\* a validation that would answer 500 for a status the operation does not
\* document (C28)
ValidateResponseRejectsUndocumented(rq, response) ==
    LET found == ResponseValidator(Entry(rq).validators.responses, response.status)
    IN IF ValidatesResponse(rq, response) /\ ~found.documented
       THEN Fail(rq, 500, "CONTRACT_VIOLATION", "Response Validation Warning", <<>>)
       ELSE Return(rq, AttachCors(response))
\* the block "Strict: Validate response" and what follows it
ValidateResponse(rq, response) ==
    LET found == ResponseValidator(Entry(rq).validators.responses, response.status)
        responseData == ResponseData(response)
        checked == AjvValidate(found.validator.schema, responseData)
        noBody == IF response.status \in {204, 304} THEN {"Attempted to return body"} ELSE {}
        pass(warnings) == Return([rq EXCEPT !.console = @ \cup warnings], AttachCors(response))
    IN IF ~ValidatesResponse(rq, response) THEN pass({})
       ELSE IF ~found.documented THEN pass({"Status is not documented"})
       ELSE IF ~Truthy(responseData)
            THEN pass(IF found.validator.def THEN {"Status expected body"} ELSE {})
       ELSE IF ~found.validator.def THEN pass({"Status does not expect body"})
       ELSE IF checked.valid THEN pass(noBody)
       ELSE IF development
            THEN Fail([rq EXCEPT !.console =
                            @ \cup noBody \cup {"failed validation against OpenAPI schema"}],
                      500, "CONTRACT_VIOLATION", "Response Validation Warning", checked.errors)
       ELSE pass(noBody \cup {"failed validation against OpenAPI schema"})

\* a dispatch without the try around the handler call, whose exception
\* leaves the entry (C27)
AfterHandlerUncaught(rq, outcome) ==
    LET resolved == [rq EXCEPT !.log = Append(@, Event("resolve", Entry(rq).operationId, outcome))]
    IN IF outcome \in {"throws", "notResponse"}
       THEN [resolved EXCEPT !.pc = "threw"]
       ELSE ValidateResponse(resolved, HandlerResponse(rq, outcome))
\* the continuation of `await handler(context, securityContext)`
AfterHandler(rq, outcome) ==
    LET resolved == [rq EXCEPT !.log = Append(@, Event("resolve", Entry(rq).operationId, outcome))]
    IN IF outcome \in {"throws", "notResponse"}
       THEN Fail([resolved EXCEPT !.console = @ \cup {"Unhandled error in handler"}],
                 500, "HANDLER_ERROR", "Internal handler error", <<>>)
       ELSE ValidateResponse(resolved, HandlerResponse(rq, outcome))

\* a dispatch without the `if (handler)` guard, whose call of undefined
\* ends in the catch at 506-509 (C7 tells it from the code's)
DispatchCallsMissing(rq) ==
    IF LookupHandler(Entry(rq).operationId) # Null
    THEN [rq EXCEPT !.pc = "handler",
                    !.body = IF Truthy(rq.parsedBody) THEN rq.parsedBody ELSE @,
                    !.log = Append(@, Event("invoke", Entry(rq).operationId, ""))]
    ELSE Fail(rq, 500, "HANDLER_ERROR", "Internal handler error", <<>>)
\* a dispatch that would call the business handler with a Security Context
\* of its own (C29)
DispatchFreshContext(rq) ==
    IF LookupHandler(Entry(rq).operationId) # Null
    THEN [rq EXCEPT !.pc = "handler",
                    !.securityContext = {},
                    !.body = IF Truthy(rq.parsedBody) THEN rq.parsedBody ELSE @,
                    !.log = Append(@, Event("invoke", Entry(rq).operationId, ""))]
    ELSE Fail(rq, 501, "NOT_IMPLEMENTED", "Not implemented", <<>>)
\* "Actual handler": the registry is read here
Dispatch(rq) ==
    IF LookupHandler(Entry(rq).operationId) # Null
    THEN [rq EXCEPT !.pc = "handler",
                    !.body = IF Truthy(rq.parsedBody) THEN rq.parsedBody ELSE @,
                    !.log = Append(@, Event("invoke", Entry(rq).operationId, ""))]
    ELSE Fail(rq, 501, "NOT_IMPLEMENTED", "Not implemented", <<>>)

\* a loop that would run from the last requirement to the first (C3)
RequirementAtReversed(effectiveSecurity, i) == effectiveSecurity[Len(effectiveSecurity) + 1 - i]
\* for (const requirement of effectiveSecurity): the i-th requirement
RequirementAt(effectiveSecurity, i) == effectiveSecurity[i]

\* a loop that would take the last key of a requirement object (C38)
SchemeNameLast(requirement) ==
    IF Len(requirement) > 0 THEN requirement[Len(requirement)].scheme ELSE ""
\* Object.keys(requirement)[0]: undefined ("") for an empty requirement
SchemeName(requirement) == IF Len(requirement) > 0 THEN requirement[1].scheme ELSE ""

\* a loop that would pass over a requirement whose scheme has no handler (C5)
RECURSIVE SecurityFromSkipsMissing(_, _)
SecurityFromSkipsMissing(rq, i) ==
    IF i > Len(Entry(rq).effectiveSecurity) THEN Dispatch(rq)
    ELSE LET schemeName == SchemeName(RequirementAt(Entry(rq).effectiveSecurity, i))
         IN IF LookupSecurityHandler(schemeName) = Null
            THEN SecurityFromSkipsMissing(rq, i + 1)
            ELSE [rq EXCEPT !.pc = "security", !.idx = i,
                            !.log = Append(@, Event("invoke", schemeName, ""))]
\* the loop `for (const requirement of effectiveSecurity)` from its i-th
\* round up to the next await
SecurityFrom(rq, i) ==
    IF i > Len(Entry(rq).effectiveSecurity) THEN Dispatch(rq)
    ELSE LET schemeName == SchemeName(RequirementAt(Entry(rq).effectiveSecurity, i))
         IN IF LookupSecurityHandler(schemeName) = Null
            THEN Fail([rq EXCEPT !.idx = i, !.console = @ \cup {"Security scheme not implemented"}],
                      500, "ERR_CONFIG", "Internal configuration error", <<>>)
            ELSE [rq EXCEPT !.pc = "security", !.idx = i,
                            !.log = Append(@, Event("invoke", schemeName, ""))]

\* what a security handler can do when it is called; it may write into the
\* security context before it answers
SecurityOutcomes ==
    [kind : {"true"}, writes : BOOLEAN]
    \cup [kind : {"false", "truthy", "response", "throws", "throwsResponse"}, writes : {FALSE}]

\* a test that would let any truthy return pass (C2)
AuthorizedTruthy(outcome) == outcome.kind \in {"true", "truthy"}
\* authorized !== true
Authorized(outcome) == outcome.kind = "true"

\* the Response a security handler returns or throws
SecurityResponse == Response(429, <<"text/plain">>, OpaqueBody("custom"), FALSE, "security")

\* a continuation whose catch would answer 401 as well (C4)
AfterSecurityCatch401(rq, outcome) ==
    LET schemeName == SchemeName(RequirementAt(Entry(rq).effectiveSecurity, rq.idx))
        resolved == [rq EXCEPT !.log = Append(@, Event("resolve", schemeName, outcome.kind)),
                               !.securityContext = IF outcome.writes THEN @ \cup {schemeName} ELSE @]
    IN IF Authorized(outcome) THEN SecurityFrom(resolved, rq.idx + 1)
       ELSE IF outcome.kind \in {"response", "throwsResponse"} THEN Return(resolved, SecurityResponse)
       ELSE Fail(resolved, 401, "UNAUTHORIZED", "Unauthorized", <<>>)
\* the continuation of `await authHandler(context, requiredScopes, securityContext)`
AfterSecurity(rq, outcome) ==
    LET schemeName == SchemeName(RequirementAt(Entry(rq).effectiveSecurity, rq.idx))
        resolved == [rq EXCEPT !.log = Append(@, Event("resolve", schemeName, outcome.kind)),
                               !.securityContext = IF outcome.writes THEN @ \cup {schemeName} ELSE @,
                               !.written = IF outcome.writes THEN @ \cup {schemeName} ELSE @]
        caught == [resolved EXCEPT !.console = @ \cup {"Auth handler error"}]
    IN IF outcome.kind = "throwsResponse" THEN Return(caught, SecurityResponse)
       ELSE IF outcome.kind = "throws"
            THEN Fail(caught, 403, "FORBIDDEN", "Forbidden", <<>>)
       ELSE IF Authorized(outcome) THEN SecurityFrom(resolved, rq.idx + 1)
       ELSE IF outcome.kind = "response" THEN Return(resolved, SecurityResponse)
       ELSE Fail(resolved, 401, "UNAUTHORIZED", "Unauthorized", <<>>)

\* what `await req.json()` / `await req.formData()` can yield: the parsed
\* data, or an exception
BodyOutcomes ==
    {[threw |-> FALSE, data |-> JObject(Obj1("name", StrV(<<"x">>)))],
     [threw |-> FALSE, data |-> JObject(EmptyObj)],
     [threw |-> FALSE, data |-> JZero],
     [threw |-> TRUE, data |-> JNone]}

\* a body stage whose catch would answer 400 at once (C25)
AfterBodyRejectsUnparsed(rq, outcome) ==
    LET checked == AjvValidate(Entry(rq).validators.body.schema, outcome.data)
        validated == [rq EXCEPT !.parsedBody = checked.data, !.parseFailed = outcome.threw]
    IN IF outcome.threw \/ ~checked.valid
       THEN Fail(validated, 400, "INVALID_BODY_VALIDATION", "Body validation failed",
                 checked.errors)
       ELSE SecurityFrom(validated, 1)
\* a body stage that would put the parsed body into the context before the
\* security checks (C37)
AfterBodyAttaches(rq, outcome) ==
    LET parsedBody == IF outcome.threw THEN JObject(EmptyObj) ELSE outcome.data
        checked == AjvValidate(Entry(rq).validators.body.schema, parsedBody)
        validated == [rq EXCEPT !.parsedBody = checked.data, !.parseFailed = outcome.threw,
                                !.body = checked.data]
    IN IF ~checked.valid
       THEN Fail(validated, 400, "INVALID_BODY_VALIDATION", "Body validation failed",
                 checked.errors)
       ELSE SecurityFrom(validated, 1)
\* the continuation of the await in "C. Validate Body"
AfterBody(rq, outcome) ==
    LET parsedBody == IF outcome.threw THEN JObject(EmptyObj) ELSE outcome.data
        checked == AjvValidate(Entry(rq).validators.body.schema, parsedBody)
        validated == [rq EXCEPT !.parsedBody = checked.data, !.parseFailed = outcome.threw]
    IN IF ~checked.valid
       THEN Fail(validated, 400, "INVALID_BODY_VALIDATION", "Body validation failed",
                 checked.errors)
       ELSE SecurityFrom(validated, 1)

\* a body stage that would let an unknown Content-Type through unless the
\* router is strict (C11)
BodyStageStrictOnly(rq) ==
    IF ~Entry(rq).validators.body.def THEN SecurityFrom(rq, 1)
    ELSE IF Includes(rq.contentType, "application/json")
            \/ Includes(rq.contentType, "multipart/form-data")
            \/ Includes(rq.contentType, "application/x-www-form-urlencoded")
            \/ ~StrictFlag(rq)
         THEN [rq EXCEPT !.pc = "body"]
         ELSE Fail(rq, 415, "UNSUPPORTED_MEDIA_TYPE", "Unsupported Content-Type header.",
                   <<>>)
\* a body stage that would read a request without Content-Type as JSON (C24)
BodyStageDefaultsToJson(rq) ==
    IF ~Entry(rq).validators.body.def THEN SecurityFrom(rq, 1)
    ELSE IF rq.contentType = <<>>
            \/ Includes(rq.contentType, "application/json")
            \/ Includes(rq.contentType, "multipart/form-data")
            \/ Includes(rq.contentType, "application/x-www-form-urlencoded")
         THEN [rq EXCEPT !.pc = "body"]
         ELSE Fail(rq, 415, "UNSUPPORTED_MEDIA_TYPE", "Unsupported Content-Type header.",
                   <<>>)
\* "C. Validate Body" up to its await
BodyStage(rq) ==
    IF ~Entry(rq).validators.body.def THEN SecurityFrom(rq, 1)
    ELSE IF Includes(rq.contentType, "application/json")
            \/ Includes(rq.contentType, "multipart/form-data")
            \/ Includes(rq.contentType, "application/x-www-form-urlencoded")
         THEN [rq EXCEPT !.pc = "body"]
         ELSE Fail(rq, 415, "UNSUPPORTED_MEDIA_TYPE", "Unsupported Content-Type header.",
                   <<>>)

\* a path stage that would validate a copy and leave context.params as
\* sent (C9)
PathStageOnCopy(rq) ==
    LET checked == AjvValidate(Entry(rq).validators.path.schema, JObject(rq.params))
    IN IF ~Entry(rq).validators.path.def THEN BodyStage(rq)
       ELSE IF ~checked.valid
            THEN Fail(rq, 400, "ERR_VALIDATION", "Path validation failed", checked.errors)
       ELSE BodyStage(rq)
\* "B. Validate Path Parameters"
PathStage(rq) ==
    LET checked == AjvValidate(Entry(rq).validators.path.schema, JObject(rq.params))
        validated == [rq EXCEPT !.params = checked.data.o]
    IN IF ~Entry(rq).validators.path.def THEN BodyStage(rq)
       ELSE IF ~checked.valid
            THEN Fail(validated, 400, "ERR_VALIDATION", "Path validation failed",
                      checked.errors)
       ELSE BodyStage(validated)

\* an entry that would go to the path stage at once (C1)
QueryStageSkipped(rq) == PathStage(rq)
\* "A. Validate Query Parameters"
QueryStage(rq) ==
    LET checked == AjvValidate(Entry(rq).validators.query.schema, JObject(rq.query))
        validated == [rq EXCEPT !.query = checked.data.o]
    IN IF ~Entry(rq).validators.query.def THEN PathStage(rq)
       ELSE IF ~checked.valid
            THEN Fail(validated, 400, "ERR_VALIDATION", "Query validation failed",
                      checked.errors)
       ELSE PathStage(validated)

\* decodeURIComponent: %XX with two hexadecimal digits is decoded, any other
\* % is a URIError
HexDigits == {"0", "1", "2", "3", "4", "5", "6", "7", "8", "9", "A", "B", "C", "D", "E", "F"}
Unescape(hi, lo) ==
    IF <<hi, lo>> = <<"2", "0">> THEN " "
    ELSE IF <<hi, lo>> = <<"4", "1">> THEN "A"
    ELSE "?"
RECURSIVE DecodeURIComponent(_)
DecodeURIComponent(chars) ==
    IF chars = <<>> THEN [threw |-> FALSE, s |-> <<>>]
    ELSE IF Head(chars) # "%"
         THEN LET rest == DecodeURIComponent(Tail(chars))
              IN [threw |-> rest.threw, s |-> <<Head(chars)>> \o rest.s]
    ELSE IF Len(chars) >= 3 /\ chars[2] \in HexDigits /\ chars[3] \in HexDigits
         THEN LET rest == DecodeURIComponent(SubSeq(chars, 4, Len(chars)))
              IN [threw |-> rest.threw, s |-> <<Unescape(chars[2], chars[3])>> \o rest.s]
    ELSE [threw |-> TRUE, s |-> <<>>]

\* this._parseCookies(req): the Cookie header is the sequence of its
\* segments between ';', a segment with '=' having a name and a value, one
\* without having a name only; the map of the decoded values, or the
\* exception of decodeURIComponent
RECURSIVE _parseCookies(_)
_parseCookies(cookieHeader) ==
    IF cookieHeader = <<>> THEN [threw |-> FALSE, map |-> <<>>]
    ELSE IF "value" \notin DOMAIN Head(cookieHeader) THEN _parseCookies(Tail(cookieHeader))
    ELSE LET value == DecodeURIComponent(Head(cookieHeader).value)
             rest == _parseCookies(Tail(cookieHeader))
         IN IF value.threw \/ rest.threw THEN [threw |-> TRUE, map |-> <<>>]
            ELSE [threw |-> FALSE,
                  map |-> IF Head(cookieHeader).name \in DOMAIN rest.map THEN rest.map
                          ELSE Put(rest.map, Head(cookieHeader).name, value.s)]

\* the fallback extraction of the path parameters: the request's path
\* segments matched by position against the template's
ExtractParams(openApiPath, pathSegments) ==
    [k \in Names |->
        IF \E i \in 1..Len(openApiPath) :
              openApiPath[i].k \in {"brace", "colon"} /\ openApiPath[i].n = k
        THEN pathSegments[CHOOSE i \in 1..Len(openApiPath) :
                /\ openApiPath[i].k \in {"brace", "colon"} /\ openApiPath[i].n = k
                /\ \A j \in (i + 1)..Len(openApiPath) :
                      ~(openApiPath[j].k \in {"brace", "colon"} /\ openApiPath[j].n = k)]
        ELSE Absent]

----------------------------------------------------------------------------
(* The requests that are sent                                              *)

PathValues == {<<"4", "2">>, <<"a", "b", "c">>}

QuerySamples ==
    [k \in Names |->
        IF k = "dryRun" THEN {Absent, StrV(TrueChars), StrV(<<"a", "b", "c">>)} ELSE {Absent}]

\* the URLs the host router matches against the template
RequestPaths(openApiPath) ==
    LET holes == {i \in 1..Len(openApiPath) : openApiPath[i].k # "lit"}
    IN {[i \in 1..Len(openApiPath) |->
            IF i \in holes THEN StrV(f[i]) ELSE StrV(<<openApiPath[i].n>>)] :
        f \in [holes -> PathValues]}

\* the query strings sent to an entry: its declared query parameters, each
\* absent or one of its samples
RequestQueries(entry) ==
    LET declared == {k \in Names : entry.validators.query.schema.properties[k] # ""}
        samples == UNION {QuerySamples[k] : k \in declared}
    IN {[k \in Names |-> IF k \in declared THEN f[k] ELSE Absent] :
        f \in {g \in [declared -> samples] : \A k \in declared : g[k] \in QuerySamples[k]}}

ContentTypes(entry) ==
    IF entry.validators.body.def THEN {JsonType, FormType, <<"text/plain">>, <<>>} ELSE {<<>>}

\* the Cookie headers sent: none, and `sid=a%20b; t=%`, whose second value
\* is a malformed escape
CookieHeaders ==
    {<<>>,
     <<[name |-> "sid", value |-> <<"a", "%", "2", "0", "b">>],
       [name |-> "t", value |-> <<"%">>]>>}

HandlerFns == {"fn"}

----------------------------------------------------------------------------
(* The CORS headers the constructor computes                               *)

\* the `cors` option: not given (undefined), or an object with some keys
NoCors == [given |-> FALSE, keys |-> <<>>]
Cors(keys) == [given |-> TRUE, keys |-> keys]

\* { ...a, ...b }
Spread(a, b) == [k \in (DOMAIN a) \cup (DOMAIN b) |-> IF k \in DOMAIN b THEN b[k] ELSE a[k]]

defaultCors ==
    [k \in {"Access-Control-Allow-Methods", "Access-Control-Allow-Headers"} |->
        IF k = "Access-Control-Allow-Methods" THEN "GET, POST, PUT, DELETE, PATCH, OPTIONS"
        ELSE "Content-Type, Authorization"]

\* cors.origin: "" stands for undefined as well as for the empty string,
\* both falsy
OriginOf(cors) == IF "origin" \in DOMAIN cors.keys THEN cors.keys["origin"] ELSE ""

\* this.CORS_HEADERS as the constructor sets it
CorsHeaders(cors) ==
    IF cors.given
    THEN LET computed ==
               IF OriginOf(cors) = "*"
               THEN Put(defaultCors, "Access-Control-Allow-Origin", "*")
               ELSE IF OriginOf(cors) # ""
               THEN Put(Put(Put(defaultCors, "Access-Control-Allow-Origin", OriginOf(cors)),
                            "Access-Control-Allow-Credentials", "true"),
                        "Vary", "Origin")
               ELSE Put(defaultCors, "Access-Control-Allow-Origin", "*")
         IN Spread(computed, cors.keys)
    ELSE Spread([k \in {"Access-Control-Allow-Origin"} |-> "*"], defaultCors)

----------------------------------------------------------------------------
(* The state machine                                                       *)

routerVars == <<definition, strictResponseValidation, development, operations,
                securityHandlers, errorHandler, table, ajv, buildConsole, thrown,
                regAfterBuild, removed, notFoundHandler, formData, spec, corsOption,
                CORS_HEADERS, errors>>
config == <<definition, strictResponseValidation, development, notFoundHandler, formData, spec,
            corsOption, CORS_HEADERS, errors>>

\* the state of the parts that are followed on their own
aside == <<formData, spec, corsOption, CORS_HEADERS, errors>>

\* the entry has returned its response, or thrown
Settled(rq) == rq.pc \in {"done", "threw"}

\* new BunOpenAPI({definition: Doc, strict, development})
Init ==
    /\ definition = Doc
    /\ strictResponseValidation \in BOOLEAN
    /\ development \in BOOLEAN
    /\ operations = <<>>
    /\ securityHandlers = <<>>
    /\ errorHandler = Null
    /\ notFoundHandler = Null
    /\ errors = <<>>
    /\ CORS_HEADERS = CorsHeaders(NoCors)
    /\ corsOption = NoCors
    /\ spec = [loaded |-> <<>>, doc |-> <<>>, schemas |-> <<>>, body |-> <<>>]
    /\ formData = [sent |-> <<>>, entries |-> <<>>, parsedBody |-> <<>>]
    /\ table = <<>>
    /\ ajv = <<>>
    /\ buildConsole = {}
    /\ thrown = ""
    /\ regAfterBuild = {}
    /\ removed = {}
    /\ req = Idle
    /\ twin = TwinOf(Idle)

\* the operationIds whose registrations the history variables follow
Tracked == {"getItem"}

\* api.register(operationId, handler)
register(operationId, handler) ==
    /\ thrown = "" /\ ~Settled(req)
    /\ IF Not(operationId) \/ TypeOf(operationId) # "string"
       THEN /\ thrown' = "operationId must be a string"
            /\ UNCHANGED <<operations, regAfterBuild, removed>>
       ELSE IF handler # JsNull /\ TypeOf(handler) # "function"
       THEN /\ thrown' = "handler must be a function or null"
            /\ UNCHANGED <<operations, regAfterBuild, removed>>
       ELSE /\ thrown' = ""
            /\ operations' = IF handler = JsNull THEN MapDelete(operations, operationId.v)
                             ELSE Put(operations, operationId.v, handler.v)
            /\ regAfterBuild' = IF handler = JsNull \/ DOMAIN table = {}
                                THEN regAfterBuild \ {operationId.v}
                                ELSE (regAfterBuild \cup {operationId.v}) \cap Tracked
            /\ removed' = IF handler # JsNull THEN removed \ {operationId.v}
                          ELSE IF operationId.v \in DOMAIN operations
                          THEN (removed \cup {operationId.v}) \cap Tracked
                          ELSE removed
    /\ UNCHANGED <<config, securityHandlers, errorHandler, table, ajv, buildConsole, req, twin>>

\* api.registerSecurity(schemeName, handler)
registerSecurity(schemeName, handler) ==
    /\ thrown = "" /\ ~Settled(req)
    /\ IF Not(schemeName) \/ TypeOf(schemeName) # "string"
       THEN thrown' = "schemeName must be a string" /\ UNCHANGED securityHandlers
       ELSE IF handler # JsNull /\ TypeOf(handler) # "function"
       THEN thrown' = "handler must be a function or null" /\ UNCHANGED securityHandlers
       ELSE /\ thrown' = ""
            /\ securityHandlers' = IF handler = JsNull
                                   THEN MapDelete(securityHandlers, schemeName.v)
                                   ELSE Put(securityHandlers, schemeName.v, handler.v)
    /\ UNCHANGED <<config, operations, errorHandler, table, ajv, buildConsole,
                   regAfterBuild, removed, req, twin>>

\* api.registerErrorHandler(handler)
registerErrorHandler(handler) ==
    /\ thrown = "" /\ ~Settled(req)
    /\ errorHandler' = handler
    /\ UNCHANGED <<config, operations, securityHandlers, table, ajv, buildConsole, thrown,
                   regAfterBuild, removed, req, twin>>

\* await api.routes(), called between requests: it throws, and returns no
\* table, when addSchema does
routes ==
    LET added == AddSchemas(ajv, definition.components)
    IN /\ thrown = "" /\ req.pc = "idle"
       /\ ajv' = added.registry
       /\ IF added.threw
          THEN /\ thrown' = "schema with key or id already exists"
               /\ UNCHANGED <<table, buildConsole, regAfterBuild>>
          ELSE /\ thrown' = ""
               /\ table' = BuildRoutes(definition, added.registry)
               /\ buildConsole' = buildConsole \cup BuildWarnings(definition)
               /\ regAfterBuild' = {}
       /\ UNCHANGED <<config, operations, securityHandlers, errorHandler, removed, req, twin>>

\* the caller of the method that threw has the exception
Caught ==
    /\ thrown # ""
    /\ thrown' = ""
    /\ UNCHANGED <<config, operations, securityHandlers, errorHandler, table, ajv,
                   buildConsole, regAfterBuild, removed, req, twin>>

\* of the operation and the schemes an entry looks up, those that have a
\* handler in this.operations and this.securityHandlers
RegisteredFor(entry) ==
    ({entry.operationId} \cap DOMAIN operations)
    \cup ({SchemeName(entry.effectiveSecurity[i]) : i \in 1..Len(entry.effectiveSecurity)}
          \cap DOMAIN securityHandlers)

\* the names the entry has still to look up in the registries: while the
\* body is read all of its schemes and its operation, in the i-th round of
\* the security loop the later schemes and its operation
Ahead(rq) ==
    LET effectiveSecurity == Entry(rq).effectiveSecurity
        from == IF rq.pc = "body" THEN 1 ELSE rq.idx + 1
    IN IF rq.pc \notin {"body", "security"} THEN {}
       ELSE {Entry(rq).operationId}
            \cup {SchemeName(effectiveSecurity[i]) : i \in from..Len(effectiveSecurity)}
\* the history kept of the registries as they were when the request arrived
Remember(rq) == [rq EXCEPT !.atEntry = @ \cap Ahead(rq)]

Busy == req.pc \in {"body", "security", "handler", "errorHandler"}

\* both routers get the same request, the same body and the same answers
\* from the same handlers; each entry goes on from where it is suspended
Resume(rq, pc, next) == IF rq.pc = pc THEN Remember(next) ELSE rq

\* an entry whose securityContext would be one object of the route's
\* closure, shared by the calls in flight (C22 tells it from the code's)
NewRequestSharedContext(key, pathSegments, query, contentType, cookieHeader) ==
    [Idle EXCEPT !.key = key,
                 !.url = [pathSegments |-> pathSegments, search |-> query],
                 !.params = ExtractParams(table[key].openApiPath, pathSegments),
                 !.query = query,
                 !.contentType = contentType,
                 !.cookieHeader = cookieHeader,
                 !.atEntry = RegisteredFor(table[key]),
                 !.cookies = _parseCookies(cookieHeader).map,
                 !.securityContext = req.securityContext \cup twin.securityContext]
\* the params, securityContext and context the entry builds for a call
\* (268-315): each call has its own
NewRequest(key, pathSegments, query, contentType, cookieHeader) ==
    [Idle EXCEPT !.key = key,
                 !.url = [pathSegments |-> pathSegments, search |-> query],
                 !.params = ExtractParams(table[key].openApiPath, pathSegments),
                 !.query = query,
                 !.contentType = contentType,
                 !.cookieHeader = cookieHeader,
                 !.atEntry = RegisteredFor(table[key]),
                 !.cookies = _parseCookies(cookieHeader).map]

\* the entry from its call up to its first await, or to the exception of
\* _parseCookies
Start(request) ==
    Remember(IF _parseCookies(request.cookieHeader).threw
             THEN [request EXCEPT !.pc = "threw"]
             ELSE QueryStage(request))

\* the host router calls the entry of a documented operation: the entry
\* runs up to its first await
RouteEntry(key, pathSegments, query, contentType, cookieHeader) ==
    LET request == NewRequest(key, pathSegments, query, contentType, cookieHeader)
    IN /\ thrown = "" /\ req.pc = "idle" /\ twin.pc = "idle"
       /\ req' = Start(request)
       /\ twin' = Start(TwinOf(request))
       /\ UNCHANGED routerVars

\* an OPTIONS entry that would answer without the CORS headers (C23)
OptionsResponseBare == Response(204, <<>>, OpaqueBody("none"), FALSE, "preflight")
\* new Response(null, {status: 204, headers: this.CORS_HEADERS})
OptionsResponse == Response(204, <<>>, OpaqueBody("none"), TRUE, "preflight")

\* the host router calls the OPTIONS entry of a path: it looks at nothing
\* of the request and returns at once
PreflightEntry(key, pathSegments, cookieHeader) ==
    LET request == [Idle EXCEPT !.key = key,
                                !.url = [pathSegments |-> pathSegments, search |-> EmptyObj],
                                !.cookieHeader = cookieHeader]
    IN /\ thrown = "" /\ req.pc = "idle" /\ twin.pc = "idle"
       /\ req' = Return(request, OptionsResponse)
       /\ twin' = Return(TwinOf(request), OptionsResponse)
       /\ UNCHANGED routerVars

\* the body was read
BodyRead(outcome) ==
    /\ req.pc = "body" \/ twin.pc = "body"
    /\ req' = Resume(req, "body", AfterBody(req, outcome))
    /\ twin' = Resume(twin, "body", AfterBody(twin, outcome))
    /\ UNCHANGED routerVars

\* the pending security handler answered
SecurityHandlerDone(outcome) ==
    /\ req.pc = "security" \/ twin.pc = "security"
    /\ req' = Resume(req, "security", AfterSecurity(req, outcome))
    /\ twin' = Resume(twin, "security", AfterSecurity(twin, outcome))
    /\ UNCHANGED routerVars

\* the business handler answered
HandlerDone(outcome) ==
    /\ req.pc = "handler" \/ twin.pc = "handler"
    /\ req' = Resume(req, "handler", AfterHandler(req, outcome))
    /\ twin' = Resume(twin, "handler", AfterHandler(twin, outcome))
    /\ UNCHANGED routerVars

\* the custom error handler answered
ErrorHandlerDone(formatted) ==
    /\ req.pc = "errorHandler" \/ twin.pc = "errorHandler"
    /\ req' = Resume(req, "errorHandler", AfterErrorHandler(req, formatted))
    /\ twin' = Resume(twin, "errorHandler", AfterErrorHandler(twin, formatted))
    /\ UNCHANGED routerVars

\* the entries returned req.resp and twin.resp to their host routers, or
\* threw
Returned ==
    /\ Settled(req) /\ Settled(twin)
    /\ req' = Idle
    /\ twin' = TwinOf(Idle)
    /\ UNCHANGED routerVars

OperationKeys == {key \in DOMAIN table : table[key].kind = "operation"}
PreflightKeys == {key \in DOMAIN table : table[key].kind = "options"}

\* the handlers the application registers, and null to remove one
Handlers == {JsFunction(fn) : fn \in HandlerFns} \cup {JsNull}

Next ==
    \/ \E operationId \in OperationIds, handler \in Handlers :
          register(JsString(operationId), handler)
    \/ \E schemeName \in SchemeNames, handler \in Handlers :
          registerSecurity(JsString(schemeName), handler)
    \/ \E handler \in HandlerFns : registerErrorHandler(handler)
    \/ routes
    \/ Caught
    \/ \E key \in OperationKeys :
          \E pathSegments \in RequestPaths(table[key].openApiPath),
             query \in RequestQueries(table[key]),
             contentType \in ContentTypes(table[key]),
             cookieHeader \in CookieHeaders :
                RouteEntry(key, pathSegments, query, contentType, cookieHeader)
    \/ \E key \in PreflightKeys :
          \E pathSegments \in RequestPaths(table[key].openApiPath),
             cookieHeader \in CookieHeaders :
                PreflightEntry(key, pathSegments, cookieHeader)
    \/ \E outcome \in BodyOutcomes : BodyRead(outcome)
    \/ \E outcome \in SecurityOutcomes : SecurityHandlerDone(outcome)
    \/ \E outcome \in HandlerOutcomes : HandlerDone(outcome)
    \/ \E formatted \in FormatterOutcomes : ErrorHandlerDone(formatted)
    \/ Returned

Spec == Init /\ [][Next]_vars

----------------------------------------------------------------------------
(* The router as the application builds it: any of the documents below,   *)
(* registrations with any arguments, routes(); no request is sent.         *)

Renamed(operation, operationId) == [operation EXCEPT !.operationId = operationId]

\* path templates: /items/{id}, /items/:id (the same host path) and /items
Templates ==
    {<<Lit("items"), Brace("id")>>, <<Lit("items"), Colon("id")>>, <<Lit("items")>>}

\* path items: the one of Doc; a single operation; an operation without
\* operationId beside a key that is no method; a documented OPTIONS operation
PathItems ==
    {Doc.paths[1].item,
     <<[method |-> "get", operation |-> Renamed(GetItem, "readItem")]>>,
     <<[method |-> "get", operation |-> Renamed(GetItem, "")],
       [method |-> "parameters", operation |-> GetItem]>>,
     <<[method |-> "options", operation |-> Renamed(GetItem, "preflight")],
       [method |-> "put", operation |-> Renamed(UpdateItem, "replaceItem")]>>}

PathEntries == [path : Templates, item : PathItems]

\* documents of one or two paths, with or without components.schemas
Contracts ==
    [paths : {<<p>> : p \in PathEntries}
             \cup {<<p, q>> : <<p, q>> \in {x \in PathEntries \X PathEntries :
                                               x[1].path # x[2].path}},
     components : {<<>>, Doc.components},
     security : {Doc.security}]

\* new BunOpenAPI({definition}), strict and development at their defaults
InitApi ==
    /\ definition \in Contracts
    /\ strictResponseValidation = FALSE
    /\ development = TRUE
    /\ operations = <<>>
    /\ securityHandlers = <<>>
    /\ errorHandler = Null
    /\ notFoundHandler = Null
    /\ errors = <<>>
    /\ CORS_HEADERS = CorsHeaders(NoCors)
    /\ corsOption = NoCors
    /\ spec = [loaded |-> <<>>, doc |-> <<>>, schemas |-> <<>>, body |-> <<>>]
    /\ formData = [sent |-> <<>>, entries |-> <<>>, parsedBody |-> <<>>]
    /\ table = <<>>
    /\ ajv = <<>>
    /\ buildConsole = {}
    /\ thrown = ""
    /\ regAfterBuild = {}
    /\ removed = {}
    /\ req = Idle
    /\ twin = TwinOf(Idle)

\* the arguments the methods are called with: a key, or a value that is no
\* non-empty string; a handler, null, or a value that is neither
KeysOf(name) == {JsString(name), JsString(""), JsNumber("7"), JsUndefined}
AnyHandlers == Handlers \cup {JsUndefined, JsString("fn"), JsObject}

NextApi ==
    \/ \E operationId \in KeysOf("getItem"), handler \in AnyHandlers :
          register(operationId, handler)
    \/ \E schemeName \in KeysOf("apiKey"), handler \in AnyHandlers :
          registerSecurity(schemeName, handler)
    \/ routes
    \/ Caught
    \/ \E key \in PreflightKeys :
          \E pathSegments \in RequestPaths(table[key].openApiPath) :
                PreflightEntry(key, pathSegments, <<[name |-> "t", value |-> <<"%">>]>>)
    \/ Returned

SpecApi == InitApi /\ [][NextApi]_vars

----------------------------------------------------------------------------
(* Properties.  What is said of a request is said of req whenever an entry *)
(* is handling one; the raw values it was sent with are in req.url.        *)

Active == req.pc \notin {"idle", "threw"} /\ req.key \in OperationKeys
KeyGet == RouteKey(<<Lit("items"), Colon("id")>>, "GET")
KeyUpdate == RouteKey(<<Lit("items"), Colon("id")>>, "PUT")

\* the request's effective requirement sequence and its scheme names
SecurityOf(rq) == table[rq.key].effectiveSecurity
SchemeAt(rq, k) == SecurityOf(rq)[k][1].scheme

Logged(rq, event) == \E j \in 1..Len(rq.log) : rq.log[j] = event
SecurityEvents(rq) == {j \in 1..Len(rq.log) : rq.log[j].who \in SchemeNames}
HandlerEvents(rq) == {j \in 1..Len(rq.log) : rq.log[j].who \in OperationIds}
HandlerCalled(rq) == Logged(rq, Event("invoke", table[rq.key].operationId, ""))

\* the entry ended (or is ending) through the error responder with these
\* arguments; the response the responder builds itself has that status
Answered(rq, status, code) ==
    /\ rq.pc \in {"errorHandler", "done"}
    /\ rq.err.status = status /\ rq.err.code = code
    /\ (rq.pc = "done" /\ rq.resp.by = "default") => rq.resp.status = status

\* what the request was sent with, against the document
RawId(rq) == rq.url.pathSegments[2].s
RawDryRun(rq) == rq.url.search["dryRun"]
QueryBad(rq) == rq.key = KeyUpdate /\ RawDryRun(rq) \notin {StrV(TrueChars), StrV(FalseChars)}
PathBad(rq) == \E i \in 1..Len(RawId(rq)) : ~IsDigit(RawId(rq)[i])
TypeBad(rq) == rq.key = KeyUpdate /\ rq.contentType \notin {JsonType, FormType}
BodyBad(rq) ==
    /\ rq.key = KeyUpdate /\ rq.pc # "body"
    /\ rq.parsedBody.k # "object" \/ rq.parsedBody.o["name"] = Absent

C2_AllRequirementsPass ==
    Active /\ HandlerCalled(req) =>
      LET n == Len(SecurityOf(req))
      IN /\ Len(req.log) >= 2 * n + 1
         /\ \A k \in 1..n :
               /\ req.log[2 * k - 1] = Event("invoke", SchemeAt(req, k), "")
               /\ req.log[2 * k] = Event("resolve", SchemeAt(req, k), "true")
         /\ req.log[2 * n + 1] = Event("invoke", table[req.key].operationId, "")

C2_Witness ==
    /\ Active /\ HandlerCalled(req) /\ Len(SecurityOf(req)) = 2
    /\ req.log[2].result = "true" /\ req.log[4].result = "true"

\* C3: for the sequence [A, B] the handler of A is called and has answered
\* before the handler of B is called, and at most one security handler is
\* pending at any time
C3_SecurityOrder ==
    Active =>
      /\ \A k \in 2..Len(SecurityOf(req)) : \A j \in 1..Len(req.log) :
            req.log[j] = Event("invoke", SchemeAt(req, k), "") =>
                \E h, i \in 1..(j - 1) :
                    /\ h < i
                    /\ req.log[h] = Event("invoke", SchemeAt(req, k - 1), "")
                    /\ req.log[i].e = "resolve" /\ req.log[i].who = SchemeAt(req, k - 1)
      /\ \A j \in SecurityEvents(req) :
            (req.log[j].e = "invoke" /\ j < Len(req.log)) =>
                req.log[j + 1] = [req.log[j] EXCEPT !.e = "resolve", !.result = req.log[j + 1].result]
      /\ req.pc = "security" =>
            req.log[Len(req.log)] = Event("invoke", SchemeAt(req, req.idx), "")

\* B's handler is pending, A's has answered
C3_Witness ==
    /\ req.pc = "security" /\ req.idx = 2
    /\ req.log = <<Event("invoke", "apiKey", ""), Event("resolve", "apiKey", "true"),
                   Event("invoke", "bearerAuth", "")>>

\* C4: how the answer of a security handler is mapped, and that the chain
\* stops at the first requirement that does not pass: true goes on to the
\* next requirement (or to dispatch), a returned or thrown Response is the
\* response as it is, a falsy return is 401, any other throw is 403
C4_SecurityOutcomes ==
    Active =>
      \A j \in SecurityEvents(req) :
        req.log[j].e = "resolve" =>
          LET result == req.log[j].result
          IN /\ result # "true" => j = Len(req.log)
             /\ result = "true" =>
                   \/ j < Len(req.log)
                   \/ Answered(req, 500, "ERR_CONFIG")
                   \/ Answered(req, 501, "NOT_IMPLEMENTED")
             /\ result \in {"response", "throwsResponse"} =>
                   req.pc = "done" /\ req.resp = SecurityResponse /\ req.err = NoError
             /\ result = "false" => Answered(req, 401, "UNAUTHORIZED")
             /\ result = "throws" => Answered(req, 403, "FORBIDDEN")

\* the first handler returned true, the second threw an error: 403
C4_Witness ==
    /\ req.pc = "done" /\ Len(req.log) = 4
    /\ req.log[2].result = "true" /\ req.log[4].result = "throws"
    /\ req.resp.status = 403 /\ req.resp.by = "default"

\* the chain has come to the k-th requirement of the request: validation
\* passed and the handlers of the requirements before it returned true
PassedValidation(rq) ==
    /\ rq.pc \notin {"idle", "body", "threw"} /\ rq.key \in OperationKeys
    /\ rq.err.code \notin {"ERR_VALIDATION", "INVALID_BODY_VALIDATION", "UNSUPPORTED_MEDIA_TYPE"}
Reached(rq, k) ==
    /\ PassedValidation(rq)
    /\ k <= Len(SecurityOf(rq))
    /\ \A i \in 1..(k - 1) : Logged(rq, Event("resolve", SchemeAt(rq, i), "true"))

C5_State ==
    Active =>
      \A k \in 1..Len(SecurityOf(req)) :
        Reached(req, k) =>
          \/ Logged(req, Event("invoke", SchemeAt(req, k), ""))
          \/ /\ Answered(req, 500, "ERR_CONFIG")
             /\ Len(req.log) = 2 * (k - 1)
             /\ HandlerEvents(req) = {}

C5_Step ==
    \A k \in 1..2 :
      (req'.pc # "idle" /\ Reached(req', k) /\ ~(Active /\ Reached(req, k))
       /\ MapGet(securityHandlers, SchemeAt(req', k)) = Null)
      => /\ req'.err = ErrorInfo(500, "ERR_CONFIG", "Internal configuration error", <<>>)
         /\ req'.log = IF k = 1 THEN <<>> ELSE Append(req.log, Event("resolve", SchemeAt(req', k - 1), "true"))

\* C5: when the chain comes to a requirement whose scheme has no registered
\* handler the request ends with 500 ERR_CONFIG, and no later security
\* handler and no business handler is called
C5_MissingSecurityHandler == []C5_State /\ [][C5_Step]_vars

\* apiKey passed, bearerAuth has no handler
C5_Witness ==
    /\ req.pc = "done" /\ req.idx = 2 /\ Len(req.log) = 2
    /\ req.err.code = "ERR_CONFIG" /\ req.resp.status = 500

OperationOf(operationId) ==
    CHOOSE operation \in {GetItem, UpdateItem} : operation.operationId = operationId

\* C6: the effective security of an operation is its own list when it
\* declares one, also the empty one, and the global list otherwise; on the
\* operation that overrides the global list with [] no security handler is
\* called and the request is dispatched
C6_EffectiveSecurity ==
    /\ \A key \in OperationKeys :
          table[key].effectiveSecurity =
             IF OperationOf(table[key].operationId).security.declared
             THEN OperationOf(table[key].operationId).security.value
             ELSE Doc.security
    /\ Active /\ req.key = KeyGet =>
          /\ SecurityEvents(req) = {}
          /\ ~PathBad(req) => HandlerCalled(req) \/ Answered(req, 501, "NOT_IMPLEMENTED")

\* no security handler is registered at all and the request was handled
C6_Witness ==
    /\ req.pc = "done" /\ req.key = KeyGet /\ DOMAIN securityHandlers = {}
    /\ Doc.security # <<>> /\ GetItem.security = [declared |-> TRUE, value |-> <<>>]
    /\ HandlerCalled(req) /\ req.resp.status = 200 /\ req.resp.by = "handler"

AllPassed(rq) ==
    /\ PassedValidation(rq)
    /\ \A k \in 1..Len(SecurityOf(rq)) : Logged(rq, Event("resolve", SchemeAt(rq, k), "true"))

C7_State ==
    Active =>
      /\ AllPassed(req) => HandlerCalled(req) \/ Answered(req, 501, "NOT_IMPLEMENTED")
      /\ req.err.code = "NOT_IMPLEMENTED" => AllPassed(req) /\ HandlerEvents(req) = {}

C7_Step ==
    (req'.pc # "idle" /\ AllPassed(req') /\ ~(Active /\ AllPassed(req))
     /\ MapGet(operations, table[req'.key].operationId) = Null)
    => req'.err.status = 501 /\ req'.err.code = "NOT_IMPLEMENTED"

\* C7: a request that passes validation and every security requirement, on
\* an operation with no registered business handler, is answered 501
C7_NotImplemented == []C7_State /\ [][C7_Step]_vars

C7_Witness ==
    /\ req.pc = "done" /\ req.key = KeyUpdate /\ Len(req.log) = 4
    /\ req.err.code = "NOT_IMPLEMENTED" /\ req.resp.status = 501

\* the last thing that happened in the request
LastEvent(rq) == rq.log[Len(rq.log)]
IdOnly(k) == JsonBody(JObject(Obj1("id", IntV(k))))

C8_State ==
    (Active /\ req.key = KeyGet) =>
      /\ PathBad(req) => Answered(req, 400, "ERR_VALIDATION") /\ req.log = <<>>
      /\ (req.pc = "done" /\ req.log # <<>> /\ LastEvent(req).result = "echo") =>
            /\ req.resp.status = 200 /\ req.resp.by = "handler"
            /\ req.resp.body = IdOnly(ParseNumber(RawId(req)))

C8_Step ==
    (req.pc = "idle" /\ req'.pc \notin {"idle", "threw"} /\ req'.key = KeyGet /\ ~PathBad(req')) =>
      IF MapGet(operations, "getItem") = Null
      THEN req'.err = ErrorInfo(501, "NOT_IMPLEMENTED", "Not implemented", <<>>) /\ req'.log = <<>>
      ELSE req'.pc = "handler" /\ req'.log = <<Event("invoke", "getItem", "")>>

\* C8: on GET /items/{id} (id: integer, no security) a non-integer id is
\* answered 400, an integer id with no registered handler 501, and with a
\* handler registered the handler's 200 response and body; the registry is
\* read when the request arrives, so a registration made after the route
\* table was built is in effect
C8_RegistryAtRequestTime == []C8_State /\ [][C8_Step]_vars

\* /items/42 answered by a handler that was registered after routes()
C8_Witness ==
    /\ req.pc = "done" /\ req.key = KeyGet /\ "getItem" \in regAfterBuild
    /\ RawId(req) = <<"4", "2">>
    /\ req.resp.status = 200 /\ req.resp.body = IdOnly(42)

FailsResponseValidator(rq, outcome) ==
    IF outcome \in {"throws", "notResponse"} THEN FALSE
    ELSE LET response == HandlerResponse(rq, outcome)
             found == ResponseValidator(table[rq.key].validators.responses, response.status)
         IN /\ Includes(response.contentType, "application/json")
            /\ response.body.kind \in {"object", "number"}
            /\ found.documented /\ found.validator.def
            /\ ~AjvValidate(found.validator.schema,
                            [k |-> response.body.kind, o |-> response.body.o]).valid

\* C10: in strict mode a JSON body that fails the response validator of its
\* status is logged as a violation; with development on the answer is 500
\* CONTRACT_VIOLATION with the validator's errors, with development off it is
\* the handler's own response
C10_ContractViolation ==
    (/\ Active /\ strictResponseValidation /\ req.log # <<>>
     /\ LastEvent(req).e = "resolve" /\ LastEvent(req).who \in OperationIds
     /\ FailsResponseValidator(req, LastEvent(req).result))
    => /\ "failed validation against OpenAPI schema" \in req.console
       /\ development =>
             Answered(req, 500, "CONTRACT_VIOLATION") /\ req.err.details # <<>>
       /\ ~development =>
             /\ req.pc = "done" /\ req.err = NoError
             /\ req.resp = AttachCors(HandlerResponse(req, LastEvent(req).result))


\* the business handler of the request has answered
HandlerResolved(rq) ==
    \E j \in 1..Len(rq.log) : rq.log[j].e = "resolve" /\ rq.log[j].who \in OperationIds

\* C11: the router that differs in the strict flag only, with the same
\* registrations and the same request, validates the query, the path and
\* the body with the same outcome and runs the same security chain: the
\* same handlers are called in the same order and the same 400, 415, 401,
\* 403, 500 or 501 is the answer; the two may differ only after the
\* business handler has answered
C11_StrictOnlyAfterHandler ==
    /\ req.pc = "idle" <=> twin.pc = "idle"
    /\ Active =>
          /\ twin.key = req.key /\ twin.url = req.url /\ twin.contentType = req.contentType
          /\ twin.query = req.query /\ twin.params = req.params
          /\ twin.parsedBody = req.parsedBody /\ twin.body = req.body
          /\ twin.log = req.log /\ twin.securityContext = req.securityContext
          /\ ~HandlerResolved(req) => twin = TwinOf(req)

\* after both security handlers and the business handler the strict router
\* answered 500 and the other one 200
C11_Witness ==
    /\ req.pc = "done" /\ twin.pc = "done" /\ Len(req.log) = 6
    /\ StrictFlag(req) /\ ~StrictFlag(twin)
    /\ req.resp.status = 500 /\ twin.resp.status = 200


\* C12: every response a route entry returns carries the configured CORS
\* headers, whichever exit produced it: the handler's response, an error
\* built by the error responder, or a Response returned or thrown by a
\* security handler
C12_CorsOnEveryResponse ==
    req.pc = "done" => req.resp.cors


\* C13: every call of a route entry ends by returning exactly one response:
\* whatever the headers of the request hold, the Cookie header included,
\* and whatever the handlers and the error formatter do, no exception
\* leaves the entry, and no handler is called a second time
C13_ExactlyOneResponse ==
    /\ req.pc # "threw"
    /\ req.pc = "done" => req.resp # NoResponse
    /\ \A i, j \in 1..Len(req.log) :
          (i < j /\ req.log[i].e = "invoke" /\ req.log[j].e = "invoke")
          => req.log[i].who # req.log[j].who


\* C14: with development on and no custom error handler the body of every
\* error response the error responder builds holds the code and the message
\* the failing stage passed, with its details, unredacted
C14_VerboseErrorBody ==
    (development /\ errorHandler = Null /\ req.pc = "done" /\ req.err # NoError)
    => /\ req.resp.status = req.err.status
       /\ req.resp.body = ErrorBody(req.err.code, req.err.message, req.err.details)


\* the texts of the terse bodies
C15_FixedMessages ==
    {"Authentication required or token is invalid.",
     "You are forbidden from accessing this resource.",
     "Resource not found.",
     "The request data is invalid or missing required parameters.",
     "An unexpected server error occurred."}

\* statuses, codes, messages and validator errors an error can be built from
C15_Statuses == {400, 401, 403, 404, 415, 500, 501}
C15_Details ==
    {<<>>, <<[keyword |-> "type", instancePath |-> "id", message |-> "must be integer"]>>}

\* C15: with development off and no custom error handler the body of every
\* error response has no code and no details, and its message is one of
\* five fixed texts chosen by the status alone
C15_TerseErrorBody ==
    ~development =>
      /\ (errorHandler = Null /\ req.pc = "done" /\ req.err # NoError) =>
            /\ req.resp.status = req.err.status /\ req.resp.status >= 400
            /\ req.resp.body.code = "" /\ req.resp.body.details = <<>>
            /\ req.resp.body.message \in C15_FixedMessages
            /\ req.resp.body.message # req.err.message
            /\ req.resp = DefaultErrorResponse(req.err.status, "", "", <<>>)
      /\ \A status \in C15_Statuses, details \in C15_Details :
            LET body == DefaultErrorResponse(status, "ERR_VALIDATION",
                                             "Query validation failed", details).body
            IN /\ body.code = "" /\ body.details = <<>>
               /\ body.message \in C15_FixedMessages
               /\ body = DefaultErrorResponse(status, "", "", <<>>).body
      /\ \A status, other \in {401, 403, 404, 400, 500} :
            status # other =>
               DefaultErrorResponse(status, "", "", <<>>).body.message
               # DefaultErrorResponse(other, "", "", <<>>).body.message

\* a 400 for a failed validation, whose errors are not in the body
C15_Witness ==
    /\ ~development /\ errorHandler = Null /\ req.pc = "done"
    /\ req.err.code = "ERR_VALIDATION" /\ req.err.details # <<>>
    /\ req.resp.body =
          ErrorBody("", "The request data is invalid or missing required parameters.", <<>>)


\* the documented (path, method) pairs that have an operationId, as
\* positions in the document
Documented(doc) ==
    UNION {{<<i, j>> : j \in {m \in 1..Len(doc.paths[i].item) :
                                /\ doc.paths[i].item[m].method \in HttpMethods
                                /\ doc.paths[i].item[m].operation.operationId # ""}} :
           i \in 1..Len(doc.paths)}
KeyOf(doc, x) ==
    RouteKey(BunPath(doc.paths[x[1]].path), Upper(doc.paths[x[1]].item[x[2]].method))
EntriesOf(routeTable, kind) == {key \in DOMAIN routeTable : routeTable[key].kind = kind}
HostPaths(doc) == {BunPath(doc.paths[i].path) : i \in 1..Len(doc.paths)}

\* C16: for every document the table routes() returns has exactly one entry
\* for each documented (path, method) pair with an operationId, running the
\* pipeline of that operation, one synthetic OPTIONS entry for each path and
\* one catch-all entry; a documented method without operationId has none
C16_RouteTableShape ==
    DOMAIN table # {} =>
      /\ \A x \in Documented(definition) :
            /\ KeyOf(definition, x) \in DOMAIN table
            /\ table[KeyOf(definition, x)] =
                  OperationEntry(definition.paths[x[1]].path,
                                 definition.paths[x[1]].item[x[2]].method,
                                 definition.paths[x[1]].item[x[2]].operation,
                                 ajv, definition.security)
      /\ Cardinality(EntriesOf(table, "operation")) = Cardinality(Documented(definition))
      /\ EntriesOf(table, "options") = {RouteKey(path, "OPTIONS") : path \in HostPaths(definition)}
      /\ EntriesOf(table, "notfound") = {CatchAll}


\* the position of the first template of the document with this host path
FirstWith(doc, bunPath) ==
    CHOOSE i \in 1..Len(doc.paths) :
        /\ BunPath(doc.paths[i].path) = bunPath
        /\ \A j \in 1..(i - 1) : BunPath(doc.paths[j].path) # bunPath
Conflicting(doc) ==
    {bunPath \in HostPaths(doc) :
        \E j \in 1..Len(doc.paths) :
            j # FirstWith(doc, bunPath) /\ BunPath(doc.paths[j].path) = bunPath}

\* C17: when two templates of the document normalise to one host path,
\* routes() warns of the conflict and the entries under that host path are
\* those of the template seen first: none of them is replaced by, or mixed
\* with, an operation of the later template
C17_FirstTemplateWins ==
    DOMAIN table # {} =>
      \A bunPath \in Conflicting(definition) :
        LET first == FirstWith(definition, bunPath)
        IN /\ \E w \in buildConsole : w.warn = "Route conflict!" /\ w.path = bunPath
           /\ \A key \in EntriesOf(table, "operation") :
                 key.path = bunPath => table[key].openApiPath = definition.paths[first].path
           /\ \A x \in Documented(definition) :
                 x[1] = first =>
                    /\ KeyOf(definition, x) \in DOMAIN table
                    /\ table[KeyOf(definition, x)].operationId =
                          definition.paths[first].item[x[2]].operation.operationId


C18_Step ==
    (routes /\ DOMAIN table # {}) => (thrown' = "" /\ table' = table)

\* C18: routes() is idempotent: a second call on the same router with the
\* same document, with or without components.schemas, succeeds and returns
\* a table with the same paths, the same methods and the same validators
C18_RoutesIdempotent == [][C18_Step]_vars


C19_State ==
    /\ \A operationId \in removed : MapGet(operations, operationId) = Null
    /\ (Active /\ req.key = KeyGet /\ Answered(req, 501, "NOT_IMPLEMENTED")) => ~HandlerCalled(req)

C19_Step ==
    /\ \A operationId \in OperationIds :
          /\ register(JsString(operationId), JsNull) => MapGet(operations', operationId) = Null
          /\ (MapGet(operations, operationId) = Null /\ MapGet(operations', operationId) # Null)
             => \E fn \in HandlerFns : register(JsString(operationId), JsFunction(fn))
    /\ \A schemeName \in SchemeNames :
          /\ registerSecurity(JsString(schemeName), JsNull)
             => MapGet(securityHandlers', schemeName) = Null
          /\ (MapGet(securityHandlers, schemeName) = Null
              /\ MapGet(securityHandlers', schemeName) # Null)
             => \E fn \in HandlerFns : registerSecurity(JsString(schemeName), JsFunction(fn))
    /\ (req.pc = "idle" /\ req'.pc \notin {"idle", "threw"} /\ req'.key = KeyGet
        /\ ~PathBad(req') /\ "getItem" \in removed)
       => req'.err.status = 501 /\ req'.err.code = "NOT_IMPLEMENTED" /\ req'.log = <<>>
    /\ \A k \in 1..Len(definition.security) :
          (req'.pc \notin {"idle", "threw"} /\ Reached(req', k) /\ ~(Active /\ Reached(req, k))
           /\ MapGet(securityHandlers, SchemeAt(req', k)) = Null)
          => req'.err.code = "ERR_CONFIG" /\ ~Logged(req', Event("invoke", SchemeAt(req', k), ""))

\* C19: register(operationId, null) removes the registration: after it, and
\* until the id is registered again, a request to the operation that passes
\* validation and security is answered 501; registerSecurity(schemeName,
\* null) removes a security handler in the same way, and a request that
\* comes to a requirement of that scheme finds no handler
C19_RegisterNullRemoves == []C19_State /\ [][C19_Step]_vars

\* GET /items/42 answered 501 after the handler of getItem was removed
C19_Witness ==
    /\ req.pc = "done" /\ req.key = KeyGet /\ "getItem" \in removed
    /\ req.err.code = "NOT_IMPLEMENTED" /\ req.resp.status = 501


\* the key is not a non-empty string, or the handler is neither a function
\* nor null
BadArguments(key, handler) ==
    \/ ~(key.type = "string" /\ key.v # "")
    \/ ~(handler.type = "function" \/ handler = JsNull)

C20_State ==
    /\ \A key \in DOMAIN operations : key # "" /\ operations[key] \in HandlerFns
    /\ \A key \in DOMAIN securityHandlers : key # "" /\ securityHandlers[key] \in HandlerFns

C20_Step ==
    /\ \A operationId \in KeysOf("getItem"), handler \in AnyHandlers :
          register(operationId, handler) =>
             IF BadArguments(operationId, handler)
             THEN thrown' # "" /\ UNCHANGED <<operations, securityHandlers>>
             ELSE thrown' = ""
    /\ \A schemeName \in KeysOf("apiKey"), handler \in AnyHandlers :
          registerSecurity(schemeName, handler) =>
             IF BadArguments(schemeName, handler)
             THEN thrown' # "" /\ UNCHANGED <<operations, securityHandlers>>
             ELSE thrown' = ""
    /\ (thrown = "" /\ thrown' # "") => UNCHANGED <<operations, securityHandlers>>

\* C20: register and registerSecurity throw at once when the key is not a
\* non-empty string or the handler is neither a function nor null, and the
\* call that threw leaves both registries as they were
C20_RegisterValidates == []C20_State /\ [][C20_Step]_vars

\* a call with a handler that is no function threw, the registries keep
\* what was registered before
C20_Witness ==
    /\ thrown = "handler must be a function or null"
    /\ DOMAIN operations = {"getItem"} /\ DOMAIN securityHandlers = {"apiKey"}


----------------------------------------------------------------------------
(* Two requests in flight in one router: the entries are async functions,  *)
(* so the calls of two requests interleave at their awaits. Here the       *)
(* variable twin holds the second request of the same router.              *)

Of(r) == IF r = 1 THEN req ELSE twin
\* the r-th request goes on to next, the other stays where it is suspended
Only(r, next) == IF r = 1 THEN req' = next /\ twin' = twin ELSE twin' = next /\ req' = req

\* new BunOpenAPI({definition: Doc}) with the default options
InitConcurrent ==
    /\ definition = Doc
    /\ strictResponseValidation = FALSE
    /\ development = TRUE
    /\ operations = <<>>
    /\ securityHandlers = <<>>
    /\ errorHandler = Null
    /\ notFoundHandler = Null
    /\ errors = <<>>
    /\ CORS_HEADERS = CorsHeaders(NoCors)
    /\ corsOption = NoCors
    /\ spec = [loaded |-> <<>>, doc |-> <<>>, schemas |-> <<>>, body |-> <<>>]
    /\ formData = [sent |-> <<>>, entries |-> <<>>, parsedBody |-> <<>>]
    /\ table = <<>>
    /\ ajv = <<>>
    /\ buildConsole = {}
    /\ thrown = ""
    /\ regAfterBuild = {}
    /\ removed = {}
    /\ req = Idle
    /\ twin = Idle

\* the requests sent: GET /items/42 and PUT /items/42?dryRun=true with a
\* JSON body
ConcurrentRequests ==
    {[key |-> KeyGet, pathSegments |-> <<StrV(<<"items">>), StrV(<<"4", "2">>)>>,
      query |-> [k \in Names |-> Absent], contentType |-> <<>>],
     [key |-> KeyUpdate, pathSegments |-> <<StrV(<<"items">>), StrV(<<"4", "2">>)>>,
      query |-> [k \in Names |-> IF k = "dryRun" THEN StrV(TrueChars) ELSE Absent],
      contentType |-> JsonType]}

\* the host router calls an entry while the other request is anywhere
ConcurrentEntry(r, sent) ==
    /\ thrown = "" /\ DOMAIN table # {} /\ Of(r).pc = "idle"
    /\ Only(r, Start(NewRequest(sent.key, sent.pathSegments, sent.query, sent.contentType,
                                <<>>)))
    /\ UNCHANGED routerVars

\* the await the r-th request is suspended at completes
ConcurrentBodyRead(r, outcome) ==
    /\ Of(r).pc = "body"
    /\ Only(r, Remember(AfterBody(Of(r), outcome)))
    /\ UNCHANGED routerVars
ConcurrentSecurityHandlerDone(r, outcome) ==
    /\ Of(r).pc = "security"
    /\ Only(r, Remember(AfterSecurity(Of(r), outcome)))
    /\ UNCHANGED routerVars
ConcurrentHandlerDone(r, outcome) ==
    /\ Of(r).pc = "handler"
    /\ Only(r, Remember(AfterHandler(Of(r), outcome)))
    /\ UNCHANGED routerVars
ConcurrentReturned(r) ==
    /\ Settled(Of(r))
    /\ Only(r, Idle)
    /\ UNCHANGED routerVars

NextConcurrent ==
    \/ \E operationId \in OperationIds : register(JsString(operationId), JsFunction("fn"))
    \/ \E schemeName \in SchemeNames : registerSecurity(JsString(schemeName), JsFunction("fn"))
    \/ routes
    \/ Caught
    \/ \E r \in {1, 2} :
          \/ \E sent \in ConcurrentRequests : ConcurrentEntry(r, sent)
          \/ \E outcome \in BodyOutcomes : ConcurrentBodyRead(r, outcome)
          \/ \E outcome \in {o \in SecurityOutcomes : o.kind \in {"true", "false"}} :
                ConcurrentSecurityHandlerDone(r, outcome)
          \/ \E outcome \in {"echo", "throws"} : ConcurrentHandlerDone(r, outcome)
          \/ ConcurrentReturned(r)

SpecConcurrent == InitConcurrent /\ [][NextConcurrent]_vars

----------------------------------------------------------------------------
(* Documents that differ in the request body, or in the responses, of PUT  *)
(* /items/{id}                                                             *)

\* requestBody.content of updateItem: the inline schema that requires name,
\* one that requires nothing, none, a $ref to the component Item, a $ref to
\* a name that is no component
BodyContents ==
    {UpdateItem.requestBody,
     [NoContent EXCEPT !["application/json"] =
        SchemaNode(<<>>, [NoProps EXCEPT !["name"] = "string"])],
     NoContent,
     [NoContent EXCEPT !["application/json"] = RefNode(<<"#", "components", "schemas", "Item">>)],
     [NoContent EXCEPT !["application/json"] = RefNode(<<"#", "components", "schemas", "Gone">>)]}

WithBody(content) ==
    [Doc EXCEPT !.paths[1].item[2].operation.requestBody = content]
\* updateItem without `responses`
WithoutResponses == [Doc EXCEPT !.paths[1].item[2].operation.responses = <<>>]

\* new BunOpenAPI({definition, strict})
InitBody ==
    /\ definition \in {WithBody(content) : content \in BodyContents} \cup {WithoutResponses}
    /\ strictResponseValidation \in BOOLEAN
    /\ development = TRUE
    /\ operations = <<>>
    /\ securityHandlers = <<>>
    /\ errorHandler = Null
    /\ notFoundHandler = Null
    /\ errors = <<>>
    /\ CORS_HEADERS = CorsHeaders(NoCors)
    /\ corsOption = NoCors
    /\ spec = [loaded |-> <<>>, doc |-> <<>>, schemas |-> <<>>, body |-> <<>>]
    /\ formData = [sent |-> <<>>, entries |-> <<>>, parsedBody |-> <<>>]
    /\ table = <<>>
    /\ ajv = <<>>
    /\ buildConsole = {}
    /\ thrown = ""
    /\ regAfterBuild = {}
    /\ removed = {}
    /\ req = Idle
    /\ twin = TwinOf(Idle)

\* the requests sent: PUT /items/42?dryRun=true with each Content-Type
BodyRequests ==
    {[key |-> KeyUpdate, pathSegments |-> <<StrV(<<"items">>), StrV(<<"4", "2">>)>>,
      query |-> [k \in Names |-> IF k = "dryRun" THEN StrV(TrueChars) ELSE Absent],
      contentType |-> contentType] :
     contentType \in {JsonType, FormType, <<"text/plain">>, <<>>}}

NextBody ==
    \/ register(JsString("updateItem"), JsFunction("fn"))
    \/ \E schemeName \in SchemeNames : registerSecurity(JsString(schemeName), JsFunction("fn"))
    \/ routes
    \/ Caught
    \/ /\ DOMAIN table # {}
       /\ \E sent \in BodyRequests :
             RouteEntry(sent.key, sent.pathSegments, sent.query, sent.contentType, <<>>)
    \/ \E outcome \in BodyOutcomes : BodyRead(outcome)
    \/ \E outcome \in {o \in SecurityOutcomes : o.kind \in {"true", "false"}} :
          SecurityHandlerDone(outcome)
    \/ \E outcome \in HandlerOutcomes : HandlerDone(outcome)
    \/ Returned

SpecBody == InitBody /\ [][NextBody]_vars

----------------------------------------------------------------------------
(* Properties of concurrent requests, of the body stage and of the       *)
(* error paths                                                             *)

\* the names whose handler the entry called in this step
Invoked(before, after) ==
    {after.log[j].who : j \in {i \in (Len(before.log) + 1)..Len(after.log) :
                                  after.log[i].e = "invoke"}}

\* the request goes on from an await of the body or of a security handler
Resumed == req.pc \in {"body", "security"} /\ req' # req

C21_Step ==
    Resumed =>
      /\ Invoked(req, req') \subseteq req.atEntry
      /\ req'.err.code = "ERR_CONFIG" => SchemeAt(req', req'.idx) \notin req.atEntry
      /\ req'.err.code = "NOT_IMPLEMENTED" => table[req.key].operationId \notin req.atEntry

\* C21: the handlers a request uses are those registered when it arrived: a
\* request that resumes after reading its body or after a security handler
\* calls only handlers that were registered at its arrival, and answers
\* ERR_CONFIG or NOT_IMPLEMENTED only for a scheme or an operation that had
\* no handler at its arrival, whatever was registered or removed meanwhile
C21_RegistrySnapshot == [][C21_Step]_vars

\* the same with the requests left out during which the registries changed
\* for a name still to be looked up
C21_Undisturbed ==
    [][(Resumed /\ req.atEntry = RegisteredFor(table[req.key]) \cap Ahead(req))
          => C21_Step]_vars


\* what a step may do to one request's contexts, given the other request
Isolated(before, after, otherBefore, otherAfter) ==
    /\ (before.pc = "idle" /\ after.pc # "idle") =>
          /\ after.securityContext = {} /\ after.body = JNone
          /\ \A j \in 1..Len(after.log) : after.log[j].who = table[after.key].operationId
    /\ (after.pc # "idle" /\ after.securityContext # before.securityContext) =>
          /\ before.pc = "security"
          /\ after.securityContext = before.securityContext \cup {SchemeAt(before, before.idx)}
    /\ after # before => otherAfter = otherBefore

C22_Step == Isolated(req, req', twin, twin') /\ Isolated(twin, twin', req, req')

\* C22: with two requests in flight in one router, on the same route or on
\* different ones and under any interleaving of their awaits, a request
\* starts with an empty Security Context and a null body of its own, its
\* Security Context changes only by what its own security handler writes,
\* and a step of one request changes nothing of the other
C22_ContextsOwned == [][C22_Step]_vars

\* both requests on PUT /items/{id} at once: the first holds what its
\* apiKey handler wrote, the second's business handler runs with an empty
\* Security Context
C22_Witness ==
    /\ req.key = KeyUpdate /\ twin.key = KeyUpdate
    /\ req.pc = "security" /\ req.securityContext = {"apiKey"}
    /\ twin.pc = "handler" /\ twin.securityContext = {}
    /\ twin.router = "this"


\* the request was handled by the OPTIONS entry of a path
Preflighted(rq) ==
    rq.pc # "idle" /\ rq.key \in DOMAIN table /\ table[rq.key].kind = "options"

\* C23: in the table of every document each path has an OPTIONS entry, and
\* a request handled by it is answered at once with an empty 204 response
\* carrying the CORS headers: no validator, security handler or business
\* handler runs and no error is built, whatever the request holds and
\* whatever is registered
C23_PreflightEntry ==
    /\ DOMAIN table # {} =>
          \A i \in 1..Len(definition.paths) :
             /\ RouteKey(BunPath(definition.paths[i].path), "OPTIONS") \in DOMAIN table
             /\ table[RouteKey(BunPath(definition.paths[i].path), "OPTIONS")].kind = "options"
    /\ Preflighted(req) =>
          /\ req.pc = "done"
          /\ req.resp.status = 204 /\ req.resp.body = OpaqueBody("none") /\ req.resp.cors
          /\ req.log = <<>> /\ req.err = NoError /\ req.console = {}
          /\ req.params = EmptyObj /\ req.securityContext = {}

\* a preflight of a path whose document declares an OPTIONS operation of its
\* own, sent with a malformed cookie while a handler is registered for
\* getItem, in a document of two paths
C23_Witness ==
    /\ Preflighted(req) /\ req.pc = "done" /\ req.resp.status = 204
    /\ req.cookieHeader # <<>>
    /\ Len(definition.paths) = 2
    /\ \E i \in 1..Len(definition.paths) :
          /\ RouteKey(BunPath(definition.paths[i].path), "OPTIONS") = req.key
          /\ \E j \in 1..Len(definition.paths[i].item) :
                definition.paths[i].item[j].method = "options"
    /\ "getItem" \in DOMAIN operations


\* the entry of an operation with a body validator got a request whose
\* Content-Type names none of the three accepted media types
Unsupported(rq) ==
    /\ rq.pc # "idle" /\ table[rq.key].kind = "operation"
    /\ table[rq.key].validators.body.def
    /\ ~Includes(rq.contentType, "application/json")
    /\ ~Includes(rq.contentType, "multipart/form-data")
    /\ ~Includes(rq.contentType, "application/x-www-form-urlencoded")

RejectsEmpty(rq) == table[rq.key].validators.body.schema.required # <<>>

\* the request is in the security stage or went through it: the handler of
\* its first requirement was called, or found missing
AtSecurity(rq) ==
    \/ rq.log # <<>> /\ rq.log[1] = Event("invoke", SchemeAt(rq, 1), "")
    \/ Answered(rq, 500, "ERR_CONFIG") /\ rq.idx = 1 /\ rq.log = <<>>

\* C25: when reading the body of a request with an accepted Content-Type
\* fails, the body is the empty object and is validated as such: the request
\* is answered 400 INVALID_BODY_VALIDATION if the operation's body schema
\* rejects the empty object, and otherwise goes on to the security stage
C25_ParseFailureIsEmptyBody ==
    (Active /\ req.parseFailed) =>
      /\ req.parsedBody = JObject(EmptyObj)
      /\ IF RejectsEmpty(req)
         THEN Answered(req, 400, "INVALID_BODY_VALIDATION") /\ req.log = <<>>
         ELSE AtSecurity(req) /\ req.err.status \notin {400, 415}

\* the body could not be read, the schema requires nothing: the business
\* handler runs with the empty object as context.body
C25_Witness ==
    /\ req.parseFailed /\ ~RejectsEmpty(req)
    /\ req.pc = "handler" /\ req.body = JObject(EmptyObj)
    /\ Len(req.log) = 5


\* the document declares no request-body schema for the request's
\* operation, or one that is a $ref to a name that is no component
Declared(rq) ==
    LET x == CHOOSE y \in Documented(definition) : KeyOf(definition, y) = rq.key
    IN definition.paths[x[1]].item[x[2]].operation
DeclaredBody(rq) == BodySchema(Declared(rq).requestBody)
NoBodySchema(rq) ==
    LET schema == DeclaredBody(rq)
    IN \/ ~schema.def
       \/ /\ schema.ref # ""
          /\ \A i \in 1..Len(definition.components) :
                definition.components[i].name # RefKey(schema)

\* C26: an operation whose request body has no schema, or a schema that is
\* an unresolved $ref, has no body validator, and a request to it skips the
\* body stage whatever its Content-Type: it is never answered 415 or
\* INVALID_BODY_VALIDATION, its body is not read, it goes on to the security
\* stage, and the business handler gets context.body = null
C26_NoBodyValidator ==
    (Active /\ table[req.key].kind = "operation" /\ NoBodySchema(req)) =>
      /\ ~table[req.key].validators.body.def
      /\ req.pc # "body" /\ ~req.parseFailed
      /\ req.parsedBody = JNone /\ req.body = JNone
      /\ req.err.code \notin {"UNSUPPORTED_MEDIA_TYPE", "INVALID_BODY_VALIDATION"}
      /\ AtSecurity(req)

\* the body schema is a $ref to a missing component, the request says
\* text/plain: the business handler runs, with a null body
C26_Witness ==
    /\ req.pc = "handler" /\ req.key = KeyUpdate /\ NoBodySchema(req)
    /\ DeclaredBody(req).ref # ""
    /\ req.contentType = <<"text/plain">>
    /\ req.body = JNone


\* the business handler of the request threw, or returned what is no
\* Response
HandlerFailed(rq) ==
    /\ rq.log # <<>>
    /\ LastEvent(rq).e = "resolve" /\ LastEvent(rq).who = table[rq.key].operationId
    /\ LastEvent(rq).result \in {"throws", "notResponse"}

\* C27: when the business handler throws or returns what is no Response,
\* the entry catches it, logs it and answers through the error responder
\* with 500 HANDLER_ERROR; the entry does not throw and the handler was
\* called once
C27_HandlerError ==
    (req.pc # "idle" /\ HandlerFailed(req)) =>
      /\ Answered(req, 500, "HANDLER_ERROR")
      /\ req.err = ErrorInfo(500, "HANDLER_ERROR", "Internal handler error", <<>>)
      /\ "Unhandled error in handler" \in req.console
      /\ Cardinality({j \in HandlerEvents(req) : req.log[j].e = "invoke"}) = 1

\* PUT /items/{id} passed both security handlers, the business handler
\* returned undefined: 500 from the built-in formatter
C27_Witness ==
    /\ req.pc = "done" /\ req.key = KeyUpdate /\ HandlerFailed(req)
    /\ LastEvent(req).result = "notResponse"
    /\ req.resp.status = 500 /\ req.resp.by = "default" /\ req.resp.cors
    /\ Len(req.log) = 6


\* the business handler of the request returned a Response
HandlerReturned(rq) ==
    /\ rq.pc \in {"errorHandler", "done"} /\ rq.log # <<>>
    /\ LastEvent(rq).e = "resolve" /\ LastEvent(rq).who = table[rq.key].operationId
    /\ LastEvent(rq).result \notin {"throws", "notResponse"}

\* the five cases: strict mode off, no documented response, an event
\* stream, a status that is not documented, a status documented without
\* schema
NotValidated(rq, response) ==
    LET responses == Declared(rq).responses
    IN \/ ~strictResponseValidation
       \/ responses = <<>>
       \/ StartsWith(response.contentType, "text/event-stream")
       \/ \A i \in 1..Len(responses) : responses[i].status # response.status
       \/ \E i \in 1..Len(responses) :
             responses[i].status = response.status /\ ~responses[i].schema.def

C29_State ==
    Active => /\ req.securityContext = req.written
              /\ req.written \subseteq {SchemeAt(req, k) : k \in 1..req.idx}

\* the context is handed on from one call to the next: it never loses a
\* write while the request is in flight
C29_Step ==
    (Active /\ req'.pc # "idle") => req.securityContext \subseteq req'.securityContext

C29_SecurityContextThreaded == []C29_State /\ [][C29_Step]_vars

\* the business handler of PUT /items/{id} is called with the writes of
\* both security handlers
C29_Witness ==
    /\ req.pc = "handler" /\ req.key = KeyUpdate
    /\ req.securityContext = {"apiKey", "bearerAuth"}
    /\ LastEvent(req) = Event("invoke", "updateItem", "")


\* the custom error handler was called for the request's error
Formatting(rq) == rq.pc \in {"errorHandler", "done"} /\ rq.passed # NoError

\* C30: with a custom error handler registered, every error the pipeline
\* builds calls it first, with the status, code and message of the error and
\* with its details, reduced to message and keyword when development is off;
\* a Response it returns is returned with the CORS headers set, an object it
\* returns is the JSON body of a response with the error's status, and when
\* it throws the exception is logged and the built-in response is returned
C30_CustomFormatter ==
    /\ (Active /\ req.err # NoError /\ errorHandler # Null) => Formatting(req)
    /\ Formatting(req) =>
          /\ req.passed = ErrorInfo(req.err.status, req.err.code, req.err.message,
                                    IF development THEN req.err.details
                                    ELSE Redact(req.err.details))
          /\ req.log = <<>> \/ LastEvent(req).e = "resolve"
    /\ (Formatting(req) /\ req.pc = "done") =>
          /\ req.formatted = "response" =>
                /\ req.resp.by = "errorHandler" /\ req.resp.cors
                /\ req.resp.status = 418 /\ req.resp.body = OpaqueBody("custom")
          /\ req.formatted = "object" =>
                /\ req.resp.by = "errorHandler" /\ req.resp.cors
                /\ req.resp.status = req.err.status
                /\ req.resp.contentType = <<"application/json">>
                /\ req.resp.body = OpaqueBody("custom")
          /\ req.formatted = "throws" =>
                /\ "Custom error handler threw an error" \in req.console
                /\ req.resp = DefaultErrorResponse(req.err.status, req.err.code,
                                                   req.err.message, req.err.details)

\* development off, a validation error with details: the handler got them
\* reduced and answered with a Response of its own
C30_Witness ==
    /\ ~development /\ req.pc = "done" /\ req.formatted = "response"
    /\ req.err.details # <<>> /\ req.passed.details # req.err.details
    /\ req.resp.status = 418 /\ req.err.status = 400


----------------------------------------------------------------------------
(* The catch-all entry routes['/*'] and registerNotFound                   *)

\* api.registerNotFound(handler): any value that is neither a function nor
\* null is ignored
registerNotFound(handler) ==
    /\ thrown = "" /\ ~Settled(req)
    /\ notFoundHandler' = IF TypeOf(handler) = "function" THEN handler.v
                          ELSE IF handler = JsNull THEN Null
                          ELSE notFoundHandler
    /\ UNCHANGED <<definition, strictResponseValidation, development, operations,
                   securityHandlers, errorHandler, table, ajv, buildConsole, thrown,
                   regAfterBuild, removed, req, twin, aside>>

\* what the not-found handler can do when it is called
NotFoundOutcomes == {"response", "object", "undefined", "throws"}

\* a catch-all answer without the CORS headers (C31)
NotFoundResponseBare == Response(404, <<"text/plain">>, OpaqueBody("Not Found"), FALSE, "notfound")
\* new Response('Not Found', {status: 404, headers: this.CORS_HEADERS})
NotFoundResponse == Response(404, <<"text/plain">>, OpaqueBody("Not Found"), TRUE, "notfound")

\* the host router calls routes['/*']: up to `await this._notFoundHandler(req)`
\* when a handler is registered, to the end otherwise
CatchAllEntry(pathSegments) ==
    LET request == [Idle EXCEPT !.key = CatchAll,
                                !.url = [pathSegments |-> pathSegments, search |-> EmptyObj]]
        start(rq) == IF notFoundHandler # Null
                     THEN [rq EXCEPT !.pc = "notFoundHandler",
                                     !.log = Append(@, Event("invoke", "notFound", ""))]
                     ELSE Return(rq, NotFoundResponse)
    IN /\ thrown = "" /\ CatchAll \in DOMAIN table
       /\ req.pc = "idle" /\ twin.pc = "idle"
       /\ req' = start(request)
       /\ twin' = start(TwinOf(request))
       /\ UNCHANGED routerVars

\* the continuation of `await this._notFoundHandler(req)`
AfterNotFoundHandler(rq, outcome) ==
    LET resolved == [rq EXCEPT !.log = Append(@, Event("resolve", "notFound", outcome))]
    IN CASE outcome = "response" ->
               Return(resolved, AttachCors(Response(410, <<"text/plain">>, OpaqueBody("custom"),
                                                    FALSE, "notFoundHandler")))
         [] outcome = "object" ->
               Return(resolved, Response(404, <<"application/json">>, OpaqueBody("custom"),
                                         TRUE, "notFoundHandler"))
         [] outcome = "throws" ->
               Fail([resolved EXCEPT !.console = @ \cup {"Unhandled error in NOT_FOUND handler"}],
                    500, "HANDLER_ERROR", "Internal handler error", <<>>)
         [] OTHER -> Return(resolved, NotFoundResponse)

\* the not-found handler answered
NotFoundHandlerDone(outcome) ==
    /\ req.pc = "notFoundHandler" \/ twin.pc = "notFoundHandler"
    /\ req' = Resume(req, "notFoundHandler", AfterNotFoundHandler(req, outcome))
    /\ twin' = Resume(twin, "notFoundHandler", AfterNotFoundHandler(twin, outcome))
    /\ UNCHANGED routerVars

\* the paths no template of Doc matches
UnmatchedPaths == {<<StrV(<<"nowhere">>)>>, <<>>}

NextNotFound ==
    \/ \E handler \in AnyHandlers : registerNotFound(handler)
    \/ \E handler \in HandlerFns : registerErrorHandler(handler)
    \/ routes
    \/ Caught
    \/ \E pathSegments \in UnmatchedPaths : CatchAllEntry(pathSegments)
    \/ \E outcome \in NotFoundOutcomes : NotFoundHandlerDone(outcome)
    \/ \E formatted \in FormatterOutcomes : ErrorHandlerDone(formatted)
    \/ Returned

SpecNotFound == Init /\ [][NextNotFound]_vars

\* the catch-all entry got the request
Unmatched(rq) == rq.pc # "idle" /\ rq.key = CatchAll

NotFoundResult(rq) == rq.log[2].result

\* C31: the catch-all entry always answers: 404 'Not Found' when no
\* not-found handler is registered, also after registerNotFound(null); with
\* a handler registered, the handler's Response, or its object as the JSON
\* body of a 404, or 500 HANDLER_ERROR through the error responder when it
\* throws; the entry never throws and every response has the CORS headers
C31_State ==
    Unmatched(req) =>
      /\ req.pc \in {"notFoundHandler", "errorHandler", "done"}
      /\ req.pc = "done" => req.resp # NoResponse /\ req.resp.cors
      /\ (req.pc = "done" /\ req.log = <<>>) => req.resp = NotFoundResponse
      /\ (req.pc = "done" /\ req.log # <<>>) =>
            /\ NotFoundResult(req) = "response" =>
                  req.resp.by = "notFoundHandler" /\ req.resp.status = 410
            /\ NotFoundResult(req) = "object" =>
                  /\ req.resp.by = "notFoundHandler" /\ req.resp.status = 404
                  /\ req.resp.contentType = <<"application/json">>
      /\ (Len(req.log) = 2 /\ NotFoundResult(req) = "throws") =>
            /\ Answered(req, 500, "HANDLER_ERROR")
            /\ "Unhandled error in NOT_FOUND handler" \in req.console

C31_Step ==
    (req.pc = "idle" /\ Unmatched(req')) =>
      IF notFoundHandler = Null THEN req'.pc = "done" /\ req'.log = <<>>
      ELSE req'.pc = "notFoundHandler"

C31_CatchAll == []C31_State /\ [][C31_Step]_vars

\* an unmatched request answered with the built-in 404 while no not-found
\* handler is set
C31_Witness ==
    /\ Unmatched(req) /\ req.pc = "done" /\ req.resp = NotFoundResponse
    /\ notFoundHandler = Null /\ errorHandler # Null


----------------------------------------------------------------------------
(* The conversion of a form body into the object that is validated         *)

\* a JavaScript array: typeof gives "object", Array.isArray gives true
JsArray(items) == [type |-> "object", v |-> "[]", items |-> items]
IsArray(x) == x.type = "object" /\ x.v = "[]"

\* the property names every object literal inherits from Object.prototype
\* (those the forms below can name)
ObjectPrototype == {"toString", "valueOf"}

\* `key in obj` for an object literal: own and inherited names
In(key, obj) == key \in DOMAIN obj \/ key \in ObjectPrototype
\* obj[key]: the own property, else the inherited method
Get(obj, key) == IF key \in DOMAIN obj THEN obj[key] ELSE JsFunction(key)

\* array.push(value)
Push(array, value) == JsArray(Append(array.items, value))

\* one turn of `for (const [key, value] of formData.entries())`
AddEntry(parsedBody, key, value) ==
    IF In(key, parsedBody)
    THEN LET held == IF IsArray(Get(parsedBody, key)) THEN Get(parsedBody, key)
                     ELSE JsArray(<<Get(parsedBody, key)>>)
         IN Put(parsedBody, key, Push(held, value))
    ELSE Put(parsedBody, key, value)

MaxFields == 3
FieldNames == {"file", "tag", "toString"}
FieldValues == {JsString("a"), JsString("b")}

\* the forms that are sent: up to MaxFields entries [key, value] in the
\* order of the body
FormEntries == UNION {[1..n -> FieldNames \X FieldValues] : n \in 0..MaxFields}

InitForm ==
    /\ definition = Doc
    /\ strictResponseValidation = FALSE
    /\ development = FALSE
    /\ operations = <<>>
    /\ securityHandlers = <<>>
    /\ errorHandler = Null
    /\ notFoundHandler = Null
    /\ errors = <<>>
    /\ CORS_HEADERS = CorsHeaders(NoCors)
    /\ corsOption = NoCors
    /\ spec = [loaded |-> <<>>, doc |-> <<>>, schemas |-> <<>>, body |-> <<>>]
    /\ formData \in {[sent |-> entries, entries |-> entries, parsedBody |-> <<>>] :
                        entries \in FormEntries}
    /\ table = <<>>
    /\ ajv = <<>>
    /\ buildConsole = {}
    /\ thrown = ""
    /\ regAfterBuild = {}
    /\ removed = {}
    /\ req = Idle
    /\ twin = TwinOf(Idle)

\* the loop takes the next entry of the form
FormEntry ==
    /\ formData.entries # <<>>
    /\ formData' = [formData EXCEPT
                      !.entries = Tail(@),
                      !.parsedBody = AddEntry(@, Head(formData.entries)[1],
                                              Head(formData.entries)[2])]
    /\ UNCHANGED <<definition, strictResponseValidation, development, operations,
                   securityHandlers, errorHandler, notFoundHandler, table, ajv,
                   buildConsole, thrown, regAfterBuild, removed, req, twin, spec, corsOption,
                   CORS_HEADERS, errors>>

NextForm == FormEntry

SpecForm == InitForm /\ [][NextForm]_vars

\* the entries the loop has taken, and the values among them of one field
\* in the order of the form
Taken == SubSeq(formData.sent, 1, Len(formData.sent) - Len(formData.entries))
ValuesOf(entries, key) ==
    LET of == SelectSeq(entries, LAMBDA e : e[1] = key)
    IN [i \in 1..Len(of) |-> of[i][2]]

FieldMapOf(names) ==
    \A key \in names :
       LET values == ValuesOf(Taken, key)
       IN /\ Len(values) = 0 => key \notin DOMAIN formData.parsedBody
          /\ Len(values) = 1 => /\ key \in DOMAIN formData.parsedBody
                                /\ formData.parsedBody[key] = values[1]
          /\ Len(values) >= 2 => /\ key \in DOMAIN formData.parsedBody
                                 /\ formData.parsedBody[key] = JsArray(values)

\* C32: the object built from a form maps a field name that occurs once to
\* its value and a field name that occurs n >= 2 times to the array of its
\* n values in the order of the form; nothing else is in the object
C32_FieldMap == FieldMapOf(FieldNames)

\* the same for the field names that Object.prototype does not have
C32_OwnNames == FieldMapOf(FieldNames \ ObjectPrototype)

\* a field sent twice and a field sent once, all taken
C32_Witness ==
    /\ formData.entries = <<>> /\ Len(formData.sent) = MaxFields
    /\ \E key \in FieldNames \ ObjectPrototype : Len(ValuesOf(formData.sent, key)) = 2
    /\ \E key \in FieldNames \ ObjectPrototype : Len(ValuesOf(formData.sent, key)) = 1


----------------------------------------------------------------------------
(* Requests with any Cookie header                                         *)

\* Cookie headers: none; `sid=a%20b; flag` and `flag`, with a segment that
\* has no '='; `sid=a%20b; t=%` and `flag; t=%E`, with a value that is not
\* a percent-encoding
CookieSamples ==
    {<<>>,
     <<[name |-> "sid", value |-> <<"a", "%", "2", "0", "b">>], [name |-> "flag"]>>,
     <<[name |-> "flag"]>>,
     <<[name |-> "sid", value |-> <<"a", "%", "2", "0", "b">>], [name |-> "t", value |-> <<"%">>]>>,
     <<[name |-> "flag"], [name |-> "t", value |-> <<"%", "E">>]>>}

NextCookies ==
    \/ \E operationId \in OperationIds : register(JsString(operationId), JsFunction("fn"))
    \/ \E schemeName \in SchemeNames : registerSecurity(JsString(schemeName), JsFunction("fn"))
    \/ routes
    \/ Caught
    \/ \E key \in OperationKeys :
          \E pathSegments \in RequestPaths(table[key].openApiPath),
             cookieHeader \in CookieSamples :
                RouteEntry(key, pathSegments,
                           [k \in Names |-> IF k = "dryRun" THEN StrV(TrueChars) ELSE Absent],
                           JsonType, cookieHeader)
    \/ \E outcome \in BodyOutcomes : BodyRead(outcome)
    \/ \E outcome \in {o \in SecurityOutcomes : o.kind \in {"true", "false"}} :
          SecurityHandlerDone(outcome)
    \/ \E outcome \in HandlerOutcomes : HandlerDone(outcome)
    \/ Returned

SpecCookies == Init /\ [][NextCookies]_vars

\* the segments of a Cookie header that are name=value with a value that
\* decodes, as a map of the decoded values (of a name sent twice, the last)
WellFormed(cookieHeader) ==
    SelectSeq(cookieHeader,
              LAMBDA c : "value" \in DOMAIN c /\ ~DecodeURIComponent(c.value).threw)
Malformed(cookieHeader) == Len(WellFormed(cookieHeader)) < Len(cookieHeader)
EscapeBroken(cookieHeader) ==
    \E i \in 1..Len(cookieHeader) :
       "value" \in DOMAIN cookieHeader[i] /\ DecodeURIComponent(cookieHeader[i].value).threw

CookiesSkipMalformed(rq) ==
    /\ rq.pc # "threw"
    /\ rq.cookies = _parseCookies(WellFormed(rq.cookieHeader)).map
    /\ rq.pc \in {"body", "security", "handler", "errorHandler", "done"}

\* C33: whatever the Cookie header holds, the entry does not throw, the
\* cookie map of the request holds its well-formed name=value segments and
\* the request goes on to the validation stages
C33_MalformedSkipped ==
    (req.pc # "idle" /\ Malformed(req.cookieHeader)) => CookiesSkipMalformed(req)

\* the same for the headers whose malformed segments are those without '='
C33_WithoutEquals ==
    (req.pc # "idle" /\ Malformed(req.cookieHeader) /\ ~EscapeBroken(req.cookieHeader))
       => CookiesSkipMalformed(req)

\* a request with the header `sid=a%20b; flag` got to its handler
C33_Witness ==
    /\ req.pc = "done" /\ HandlerCalled(req)
    /\ Malformed(req.cookieHeader) /\ DOMAIN req.cookies = {"sid"}


----------------------------------------------------------------------------
(* The schema nodes of the document, in full, under routes() and           *)
(* _compileValidators                                                      *)

\* a schema node as the parsed document holds it: its $ref (the segments of
\* the pointer, <<>> when it has none), its type (one name, or the list a
\* patch makes of it), its format, the type and format of its items and
\* its properties, each a node again
NoItems == [type |-> "", format |-> ""]
Node(ref, type, format, items, properties) ==
    [def |-> TRUE, ref |-> ref, type |-> type, format |-> format, items |-> items,
     properties |-> properties]
NoNode == [def |-> FALSE, ref |-> <<>>, type |-> <<>>, format |-> "", items |-> NoItems,
           properties |-> <<>>]

\* this._rewriteRefs(node): every $ref of the node and of the nodes below
\* it is cut to its last segment, in place
RECURSIVE _rewriteRefs(_)
_rewriteRefs(node) ==
    [def |-> node.def,
     ref |-> IF node.ref # <<>> THEN <<node.ref[Len(node.ref)]>> ELSE node.ref,
     type |-> node.type, format |-> node.format, items |-> node.items,
     properties |-> [p \in DOMAIN node.properties |-> _rewriteRefs(node.properties[p])]]

\* this._patchBinaryTypes(schema): the type of a binary string and of an
\* array of binary strings is widened, in place, in the schema and in its
\* properties
RECURSIVE _patchBinaryTypes(_)
_patchBinaryTypes(schema) ==
    [def |-> schema.def, ref |-> schema.ref,
     type |-> IF schema.type = <<"string">> /\ schema.format = "binary"
              THEN <<"string", "object">>
              ELSE IF /\ schema.type = <<"array">>
                      /\ schema.items.type = "string" /\ schema.items.format = "binary"
              THEN <<"array", "object">>
              ELSE schema.type,
     format |-> schema.format, items |-> schema.items,
     properties |-> [p \in DOMAIN schema.properties |->
                        _patchBinaryTypes(schema.properties[p])]]

\* const patched = this._rewriteRefs({ ...schema }); this._patchBinaryTypes(patched):
\* the copy has its own $ref and type, and shares the nodes below with the
\* schema of the document
Patched(schema) == _patchBinaryTypes(_rewriteRefs(schema))
AfterPatchOfCopy(schema) == [schema EXCEPT !.properties = Patched(schema).properties]

\* the schema _compileValidators takes for the request body, and isMultiPart
BodyNode(content) ==
    IF content["application/json"].def THEN content["application/json"]
    ELSE IF content["multipart/form-data"].def THEN content["multipart/form-data"]
    ELSE content["application/x-www-form-urlencoded"]
BodyMedia(content) ==
    IF content["application/json"].def THEN "application/json"
    ELSE IF content["multipart/form-data"].def THEN "multipart/form-data"
    ELSE "application/x-www-form-urlencoded"
IsMultiPart(content) == ~content["application/json"].def

\* the nodes a property of the documents below can be: a $ref, a string, a
\* binary string (a file), an array of binary strings
ItemPointer == <<"#", "components", "schemas", "Item">>
PropertyNodes ==
    {Node(ItemPointer, <<>>, "", NoItems, <<>>),
     Node(<<>>, <<"string">>, "", NoItems, <<>>),
     Node(<<>>, <<"string">>, "binary", NoItems, <<>>),
     Node(<<>>, <<"array">>, "", [type |-> "string", format |-> "binary"], <<>>)}

\* a schema: an object with one property, or a binary string
SchemaNodes ==
    {Node(<<>>, <<"object">>, "", NoItems, [p \in {"part"} |-> node]) : node \in PropertyNodes}
    \cup {Node(<<>>, <<"string">>, "binary", NoItems, <<>>)}

\* the documents: components.schemas with Item and Order, and the content
\* of one request body under one media type, inline or a $ref
FullDocuments ==
    {[components |-> [name \in {"Item", "Order"} |->
                         IF name = "Order" THEN order
                         ELSE Node(<<>>, <<"object">>, "", NoItems,
                                   [p \in {"id"} |-> Node(<<>>, <<"integer">>, "", NoItems, <<>>)])],
      content |-> [m \in MediaTypes |-> IF m = media THEN body ELSE NoNode]] :
     order \in SchemaNodes,
     media \in MediaTypes,
     body \in SchemaNodes \cup {Node(ItemPointer, <<>>, "", NoItems, <<>>)}}

InitCompile ==
    /\ definition = Doc
    /\ strictResponseValidation = FALSE
    /\ development = FALSE
    /\ operations = <<>>
    /\ securityHandlers = <<>>
    /\ errorHandler = Null
    /\ notFoundHandler = Null
    /\ errors = <<>>
    /\ CORS_HEADERS = CorsHeaders(NoCors)
    /\ corsOption = NoCors
    /\ formData = [sent |-> <<>>, entries |-> <<>>, parsedBody |-> <<>>]
    /\ spec \in {[loaded |-> doc, doc |-> doc, schemas |-> <<>>, body |-> <<>>] :
                    doc \in FullDocuments}
    /\ table = <<>>
    /\ ajv = <<>>
    /\ buildConsole = {}
    /\ thrown = ""
    /\ regAfterBuild = {}
    /\ removed = {}
    /\ req = Idle
    /\ twin = TwinOf(Idle)

compileVars == <<definition, strictResponseValidation, development, operations,
                 securityHandlers, errorHandler, notFoundHandler, formData, table, ajv,
                 buildConsole, thrown, regAfterBuild, removed, req, twin, corsOption,
                   CORS_HEADERS, errors>>

\* routes(), the loop over components.schemas: each schema is copied,
\* rewritten, patched and added to Ajv under its name
AddComponentSchemas ==
    /\ DOMAIN spec.schemas = {}
    /\ spec' = [spec EXCEPT
                  !.schemas = [name \in DOMAIN spec.doc.components |->
                                  Patched(spec.doc.components[name])],
                  !.doc.components = [name \in DOMAIN @ |-> AfterPatchOfCopy(@[name])]]
    /\ UNCHANGED compileVars

\* how often the validators of the operation are compiled
MaxCompiles == 2

\* _compileValidators(operation), the request body: a $ref is looked up in
\* Ajv, an inline schema is patched where it stands when isMultiPart and
\* compiled
CompileBody ==
    LET schema == BodyNode(spec.doc.content)
        compiled == IF ~schema.def THEN NoNode
                    ELSE IF schema.ref # <<>>
                    THEN spec.schemas[schema.ref[Len(schema.ref)]]
                    ELSE IF IsMultiPart(spec.doc.content) THEN _patchBinaryTypes(schema)
                    ELSE schema
    IN /\ DOMAIN spec.schemas # {} /\ Len(spec.body) < MaxCompiles
       /\ spec' = [spec EXCEPT
                     !.body = Append(@, compiled),
                     !.doc.content[BodyMedia(spec.doc.content)] =
                        IF schema.def /\ schema.ref = <<>> /\ IsMultiPart(spec.doc.content)
                        THEN _patchBinaryTypes(schema) ELSE @]
       /\ UNCHANGED compileVars

NextCompile == AddComponentSchemas \/ CompileBody

SpecCompile == InitCompile /\ [][NextCompile]_vars

\* the document is as it was loaded
DocumentUnchanged == spec.doc = spec.loaded
\* compiled twice, the body validator is of the same schema
SameValidators == Len(spec.body) = MaxCompiles => spec.body[1] = spec.body[2]

\* a node without a $ref and without a binary string, below its top
RECURSIVE Plain(_)
Plain(node) ==
    /\ node.ref = <<>>
    /\ ~(node.type = <<"string">> /\ node.format = "binary")
    /\ ~(node.type = <<"array">> /\ node.items.format = "binary")
    /\ \A p \in DOMAIN node.properties : Plain(node.properties[p])
PlainBelow(node) == \A p \in DOMAIN node.properties : Plain(node.properties[p])

\* C34: routes() and _compileValidators leave the document as it was
\* loaded, the nested nodes of the component schemas and the inline
\* request-body schemas included, and compiling an operation twice gives
\* validators of the same schema
C34_CompilationPure == DocumentUnchanged /\ SameValidators

\* the second half alone
C34_SameValidators == SameValidators

\* the first half for the documents whose component schemas have neither a
\* $ref nor a binary string below their top and whose inline body schema
\* is JSON or has no binary string
C34_PlainDocuments ==
    (/\ \A name \in DOMAIN spec.loaded.components : PlainBelow(spec.loaded.components[name])
     /\ LET schema == BodyNode(spec.loaded.content)
        IN IsMultiPart(spec.loaded.content) => (schema.ref # <<>> \/ Plain(schema)))
       => DocumentUnchanged


----------------------------------------------------------------------------
(* The constructor with any cors option                                    *)

\* the values of cors.origin: the wildcard, an origin, the empty string
Origins == {"*", "https://app.example", ""}

\* the keys a cors option can have besides origin, each with the value the
\* application gives it
OverrideKeys ==
    {"Access-Control-Allow-Origin", "Access-Control-Allow-Methods",
     "Access-Control-Allow-Credentials", "Vary", "Access-Control-Max-Age"}
OverrideValue(k) ==
    CASE k = "Access-Control-Allow-Origin" -> "https://other.example"
      [] k = "Access-Control-Allow-Methods" -> "GET"
      [] k = "Access-Control-Allow-Credentials" -> "false"
      [] k = "Vary" -> "Accept"
      [] OTHER -> "600"

CorsOptions ==
    {NoCors}
    \cup {Cors([k \in keys |-> OverrideValue(k)]) : keys \in SUBSET OverrideKeys}
    \cup {Cors(Put([k \in keys |-> OverrideValue(k)], "origin", origin)) :
             keys \in SUBSET OverrideKeys, origin \in Origins}

InitCors ==
    /\ definition = Doc
    /\ strictResponseValidation = FALSE
    /\ development = FALSE
    /\ operations = <<>>
    /\ securityHandlers = <<>>
    /\ errorHandler = Null
    /\ notFoundHandler = Null
    /\ errors = <<>>
    /\ formData = [sent |-> <<>>, entries |-> <<>>, parsedBody |-> <<>>]
    /\ spec = [loaded |-> <<>>, doc |-> <<>>, schemas |-> <<>>, body |-> <<>>]
    /\ corsOption \in CorsOptions
    /\ CORS_HEADERS = <<>>
    /\ table = <<>>
    /\ ajv = <<>>
    /\ buildConsole = {}
    /\ thrown = ""
    /\ regAfterBuild = {}
    /\ removed = {}
    /\ req = Idle
    /\ twin = TwinOf(Idle)

\* the part of new BunOpenAPI({definition, cors}) that sets this.CORS_HEADERS
SetCorsHeaders ==
    /\ DOMAIN CORS_HEADERS = {}
    /\ CORS_HEADERS' = CorsHeaders(corsOption)
    /\ UNCHANGED <<definition, strictResponseValidation, development, operations,
                   securityHandlers, errorHandler, notFoundHandler, formData, spec,
                   corsOption, table, ajv, buildConsole, thrown, regAfterBuild, removed,
                   req, twin, errors>>

NextCors == SetCorsHeaders

SpecCors == InitCors /\ [][NextCors]_vars

HasOrigin(option) == option.given /\ "origin" \in DOMAIN option.keys
\* an origin that is given and is not the wildcard
Explicit(option) == HasOrigin(option) /\ option.keys["origin"] # "*"

\* the header set as it is described: Allow-Origin from origin, credentials
\* and Vary for an explicit origin, every other key of the option over the
\* computed header of its name, and no header named origin
Described(option) ==
    LET computed ==
          [k \in {"Access-Control-Allow-Origin", "Access-Control-Allow-Methods",
                  "Access-Control-Allow-Headers"}
                 \cup (IF Explicit(option)
                       THEN {"Access-Control-Allow-Credentials", "Vary"} ELSE {}) |->
             CASE k = "Access-Control-Allow-Origin" ->
                     IF Explicit(option) THEN option.keys["origin"] ELSE "*"
               [] k = "Access-Control-Allow-Credentials" -> "true"
               [] k = "Vary" -> "Origin"
               [] OTHER -> defaultCors[k]]
    IN Spread(computed, [k \in (DOMAIN option.keys) \ {"origin"} |-> option.keys[k]])

Without(headers, name) == [k \in (DOMAIN headers) \ {name} |-> headers[k]]

\* C35: the configured CORS headers are: Access-Control-Allow-Origin '*'
\* when origin is '*' or absent and the given origin otherwise;
\* Allow-Credentials 'true' and Vary 'Origin' exactly when origin is given
\* and is not '*'; every other key of the option over the computed header
\* of the same name; and no header for the key origin itself
C35_CorsHeaders ==
    DOMAIN CORS_HEADERS # {} => CORS_HEADERS = Described(corsOption)

\* the same but for the header named origin, for the options whose origin
\* is not the empty string
C35_ButOrigin ==
    (DOMAIN CORS_HEADERS # {} /\ OriginOf(corsOption) # "")
       => Without(CORS_HEADERS, "origin") = Described(corsOption)

\* the same for the options without the key origin
C35_NoOrigin ==
    (DOMAIN CORS_HEADERS # {} /\ ~HasOrigin(corsOption))
       => CORS_HEADERS = Described(corsOption)


----------------------------------------------------------------------------
(* Concurrent requests and validator.errors: a compiled validator is one   *)
(* function object per route, and each call of it assigns its errors       *)
(* property (null, here <<>>, when the data is valid)                      *)

\* validators.<which>(data): the call assigns validators.<which>.errors
Call(slot, key, which, schema, data) == Put(slot, <<key, which>>, AjvValidate(schema, data).errors)

\* validators.<which>.errors
ErrorsOf(slot, key, which) == IF <<key, which>> \in DOMAIN slot THEN slot[<<key, which>>] ELSE <<>>

\* the validator whose failure made the error
Which(err) ==
    CASE err.message = "Query validation failed" -> "query"
      [] err.message = "Path validation failed" -> "path"
      [] err.code = "INVALID_BODY_VALIDATION" -> "body"
      [] err.code = "CONTRACT_VIOLATION" -> "responses"
      [] OTHER -> ""

\* the validator calls of the entry up to its first await: query, then path
\* when the query passed
EntryCalls(slot, request) ==
    LET validators == table[request.key].validators
        query == AjvValidate(validators.query.schema, JObject(request.query))
        called == IF validators.query.def
                  THEN Call(slot, request.key, "query", validators.query.schema,
                            JObject(request.query))
                  ELSE slot
    IN IF (validators.query.def => query.valid) /\ validators.path.def
       THEN Call(called, request.key, "path", validators.path.schema, JObject(request.params))
       ELSE called

\* the validator call after the body was read
BodyCalls(slot, rq, outcome) ==
    Call(slot, rq.key, "body", Entry(rq).validators.body.schema,
         IF outcome.threw THEN JObject(EmptyObj) ELSE outcome.data)

\* the validator call after the handler answered, when the response is
\* validated
HandlerCalls(slot, rq, outcome) ==
    LET response == HandlerResponse(rq, outcome)
        found == ResponseValidator(Entry(rq).validators.responses, response.status)
    IN IF /\ outcome \notin {"throws", "notResponse"}
          /\ ValidatesResponse(rq, response) /\ found.documented
          /\ Truthy(ResponseData(response)) /\ found.validator.def
       THEN Call(slot, rq.key, "responses", found.validator.schema, ResponseData(response))
       ELSE slot

\* a read of the errors as the calls before this step left them
ReadErrorsStale(before, next, old, new) ==
    IF before.err = NoError /\ Which(next.err) # ""
    THEN Fail(next, next.err.status, next.err.code, next.err.message,
              ErrorsOf(old, next.key, Which(next.err)))
    ELSE next
\* `validators.query.errors`, `validators.path.errors`,
\* `validators.body.errors`, `validator.errors || []`: the details of the
\* error are read from the validator right after its call, in the same step
ReadErrors(before, next, old, new) ==
    IF before.err = NoError /\ Which(next.err) # ""
    THEN Fail(next, next.err.status, next.err.code, next.err.message,
              ErrorsOf(new, next.key, Which(next.err)))
    ELSE next

\* new BunOpenAPI({definition: Doc, strict: true})
InitShared ==
    /\ definition = Doc
    /\ strictResponseValidation = TRUE
    /\ development = TRUE
    /\ operations = <<>>
    /\ securityHandlers = <<>>
    /\ errorHandler = Null
    /\ notFoundHandler = Null
    /\ formData = [sent |-> <<>>, entries |-> <<>>, parsedBody |-> <<>>]
    /\ spec = [loaded |-> <<>>, doc |-> <<>>, schemas |-> <<>>, body |-> <<>>]
    /\ corsOption = NoCors
    /\ CORS_HEADERS = CorsHeaders(NoCors)
    /\ errors = <<>>
    /\ table = <<>>
    /\ ajv = <<>>
    /\ buildConsole = {}
    /\ thrown = ""
    /\ regAfterBuild = {}
    /\ removed = {}
    /\ req = Idle
    /\ twin = Idle

\* requests to GET and PUT /items/{id}: the id 42 or abc, dryRun true, abc
\* or not sent
SharedRequests ==
    {[key |-> KeyGet, pathSegments |-> <<StrV(<<"items">>), StrV(id)>>,
      query |-> [k \in Names |-> Absent], contentType |-> <<>>] : id \in PathValues}
    \cup {[key |-> KeyUpdate, pathSegments |-> <<StrV(<<"items">>), StrV(id)>>,
           query |-> [k \in Names |-> IF k = "dryRun" THEN dryRun ELSE Absent],
           contentType |-> JsonType] :
          id \in PathValues, dryRun \in QuerySamples["dryRun"]}

sharedVars == <<definition, strictResponseValidation, development, operations,
                securityHandlers, errorHandler, table, ajv, buildConsole, thrown,
                regAfterBuild, removed, notFoundHandler, formData, spec, corsOption,
                CORS_HEADERS>>

SharedEntry(r, sent) ==
    /\ thrown = "" /\ DOMAIN table # {} /\ Of(r).pc = "idle"
    /\ LET request == NewRequest(sent.key, sent.pathSegments, sent.query, sent.contentType,
                                 <<>>)
       IN /\ errors' = EntryCalls(errors, request)
          /\ Only(r, ReadErrors(request, Start(request), errors, errors'))
    /\ UNCHANGED sharedVars

SharedBodyRead(r, outcome) ==
    /\ Of(r).pc = "body"
    /\ errors' = BodyCalls(errors, Of(r), outcome)
    /\ Only(r, ReadErrors(Of(r), Remember(AfterBody(Of(r), outcome)), errors, errors'))
    /\ UNCHANGED sharedVars

SharedHandlerDone(r, outcome) ==
    /\ Of(r).pc = "handler"
    /\ errors' = HandlerCalls(errors, Of(r), outcome)
    /\ Only(r, ReadErrors(Of(r), Remember(AfterHandler(Of(r), outcome)), errors, errors'))
    /\ UNCHANGED sharedVars

SharedErrorHandlerDone(r, formatted) ==
    /\ Of(r).pc = "errorHandler"
    /\ Only(r, AfterErrorHandler(Of(r), formatted))
    /\ UNCHANGED routerVars

NextShared ==
    \/ register(JsString("getItem"), JsFunction("fn"))
    \/ registerErrorHandler("fn")
    \/ routes
    \/ Caught
    \/ \E r \in {1, 2} :
          \/ \E sent \in SharedRequests : SharedEntry(r, sent)
          \/ \E outcome \in BodyOutcomes : SharedBodyRead(r, outcome)
          \/ \E outcome \in {"echo", "missing"} : SharedHandlerDone(r, outcome)
          \/ SharedErrorHandlerDone(r, "undefined")
          \/ ConcurrentReturned(r)

SpecShared == InitShared /\ [][NextShared]_vars

\* the errors of validating the request's own values
OwnErrors(rq) ==
    LET validators == Entry(rq).validators
        resolved == rq.log[Len(rq.log)].result
    IN CASE Which(rq.err) = "query" ->
               AjvValidate(validators.query.schema, JObject(rq.url.search)).errors
         [] Which(rq.err) = "path" ->
               AjvValidate(validators.path.schema,
                           JObject(ExtractParams(Entry(rq).openApiPath,
                                                 rq.url.pathSegments))).errors
         [] Which(rq.err) = "body" ->
               AjvValidate(validators.body.schema,
                           IF rq.parseFailed THEN JObject(EmptyObj) ELSE rq.parsedBody).errors
         [] OTHER ->
               AjvValidate(ResponseValidator(validators.responses, 200).validator.schema,
                           ResponseData(HandlerResponse(rq, resolved))).errors

CarriesOwn(rq) ==
    (rq.pc \in {"errorHandler", "done"} /\ Which(rq.err) # "") =>
       /\ rq.err.details # <<>>
       /\ rq.err.details = OwnErrors(rq)
       /\ (rq.pc = "done" /\ rq.resp.by = "default") => rq.resp.body.details = OwnErrors(rq)
       /\ rq.passed # NoError => rq.passed.details = SafeDetails(OwnErrors(rq))

\* C36: whatever the interleaving of two requests, the details of a
\* request's 400 or CONTRACT_VIOLATION are the errors of validating its own
\* values, although both requests call the same validators and read the
\* same errors property
C36_OwnDetails == CarriesOwn(req) /\ CarriesOwn(twin)

\* two requests of the same route failed the same validator with different
\* errors, the first still at its error handler when the second overwrote
\* the errors property
C36_Witness ==
    /\ req.pc = "errorHandler" /\ twin.pc = "errorHandler"
    /\ req.key = twin.key /\ Which(req.err) # "" /\ Which(req.err) = Which(twin.err)
    /\ req.err.details # twin.err.details
    /\ ErrorsOf(errors, req.key, Which(req.err)) = twin.err.details


----------------------------------------------------------------------------
(* Properties of the context during the security checks and of the        *)
(* requirement objects                                                     *)

\* C37: while a security handler runs, and up to the end of the security
\* loop, context.body is null, also when a body was parsed and validated;
\* the parsed body is in the context only once the business handler was
\* called, so never for a request that ends in the security loop or with
\* 501
C37_State ==
    Active =>
      /\ req.pc \in {"body", "security"} => req.body = JNone
      /\ ~HandlerCalled(req) => req.body = JNone
      /\ req.body # JNone => Truthy(req.parsedBody) /\ req.body = req.parsedBody

\* a step that calls a security handler hands it a context without body
C37_Step ==
    (Active' /\ Invoked(req, req') \cap SchemeNames # {}) => req'.body = JNone

C37_BodyAfterSecurity == []C37_State /\ [][C37_Step]_vars

\* the second security handler is running for a request whose body was
\* parsed and validated
C37_Witness ==
    /\ Active /\ req.pc = "security" /\ req.idx = 2
    /\ Truthy(req.parsedBody) /\ req.body = JNone


\* requirement objects with two keys, in either order, and without keys
BothSchemes ==
    <<[scheme |-> "apiKey", scopes |-> <<>>], [scheme |-> "bearerAuth", scopes |-> <<"write">>]>>
BothSchemesReversed ==
    <<[scheme |-> "bearerAuth", scopes |-> <<"write">>], [scheme |-> "apiKey", scopes |-> <<>>]>>
NoScheme == <<>>

\* Doc with another top-level `security`
WithSecurity(security) == [Doc EXCEPT !.security = security]
SecurityLists ==
    {<<BothSchemes>>, <<BothSchemesReversed>>, <<NoScheme>>, <<BothSchemes, NoScheme>>,
     <<Requirement("apiKey", <<>>), BothSchemesReversed>>}

InitRequirements ==
    /\ definition \in {WithSecurity(security) : security \in SecurityLists}
    /\ strictResponseValidation = FALSE
    /\ development = TRUE
    /\ operations = <<>>
    /\ securityHandlers = <<>>
    /\ errorHandler = Null
    /\ notFoundHandler = Null
    /\ formData = [sent |-> <<>>, entries |-> <<>>, parsedBody |-> <<>>]
    /\ spec = [loaded |-> <<>>, doc |-> <<>>, schemas |-> <<>>, body |-> <<>>]
    /\ corsOption = NoCors
    /\ CORS_HEADERS = CorsHeaders(NoCors)
    /\ errors = <<>>
    /\ table = <<>>
    /\ ajv = <<>>
    /\ buildConsole = {}
    /\ thrown = ""
    /\ regAfterBuild = {}
    /\ removed = {}
    /\ req = Idle
    /\ twin = TwinOf(Idle)

NextRequirements ==
    \/ register(JsString("updateItem"), JsFunction("fn"))
    \/ \E schemeName \in SchemeNames : registerSecurity(JsString(schemeName), JsFunction("fn"))
    \/ routes
    \/ Caught
    \/ /\ DOMAIN table # {}
       /\ RouteEntry(KeyUpdate, <<StrV(<<"items">>), StrV(<<"4", "2">>)>>,
                     [k \in Names |-> IF k = "dryRun" THEN StrV(TrueChars) ELSE Absent],
                     JsonType, <<>>)
    \/ \E outcome \in BodyOutcomes : BodyRead(outcome)
    \/ \E outcome \in SecurityOutcomes : SecurityHandlerDone(outcome)
    \/ \E outcome \in {"echo", "throws"} : HandlerDone(outcome)
    \/ Returned

SpecRequirements == InitRequirements /\ [][NextRequirements]_vars

\* the first-listed key of the k-th requirement of the request ("" when the
\* requirement has no key), and the keys listed after the first
FirstKey(rq, k) == IF SecurityOf(rq)[k] = <<>> THEN "" ELSE SecurityOf(rq)[k][1].scheme
LaterKeys(rq, k) == {SecurityOf(rq)[k][i].scheme : i \in 2..Len(SecurityOf(rq)[k])}

\* the rounds of the security loop that called a handler, in order
SecurityCalls(rq) ==
    SelectSeq(rq.log, LAMBDA event : event.e = "invoke" /\ event.who \in SchemeNames)

\* the rounds whose handler answered true
RoundsPassed(rq) ==
    SelectSeq(rq.log, LAMBDA event : /\ event.e = "resolve" /\ event.who \in SchemeNames
                                     /\ event.result = "true")

\* C38: of each requirement object the loop evaluates the first-listed key
\* only: the k-th handler called is the one of the first key of the k-th
\* requirement, a request is rejected in the k-th round by that handler's
\* answer or because that key has no handler, whatever is registered for
\* the keys listed after it; and a requirement object without keys ends
\* the request with 500 ERR_CONFIG
C38_State ==
    Active =>
      /\ \A k \in 1..Len(SecurityCalls(req)) : SecurityCalls(req)[k].who = FirstKey(req, k)
      /\ req.pc = "security" => LookupSecurityHandler(FirstKey(req, req.idx)) # Null
      /\ (req.pc = "done" /\ req.err.code = "ERR_CONFIG") =>
            /\ req.err.status = 500
            /\ LookupSecurityHandler(FirstKey(req, req.idx)) = Null
            /\ Len(SecurityCalls(req)) = req.idx - 1
      /\ (req.pc = "done" /\ req.err.code \in {"UNAUTHORIZED", "FORBIDDEN"}) =>
            /\ LastEvent(req).who = FirstKey(req, req.idx)
            /\ LastEvent(req).result # "true"
      /\ \A k \in 1..Len(SecurityOf(req)) :
            SecurityOf(req)[k] = <<>> =>
               /\ ~HandlerCalled(req) /\ Len(SecurityCalls(req)) < k
               /\ (PassedValidation(req) /\ Len(RoundsPassed(req)) = k - 1) =>
                     req.idx = k /\ Answered(req, 500, "ERR_CONFIG")

\* a step of the loop calls at most the handler of the first key of the
\* round it is in
C38_Step ==
    (Active' /\ req'.pc = "security" /\ Invoked(req, req') \cap SchemeNames # {})
       => Invoked(req, req') \cap SchemeNames = {FirstKey(req', req'.idx)}

C38_FirstKeyOnly == []C38_State /\ [][C38_Step]_vars

\* a request passed a requirement object with two keys while only its
\* first key has a handler
C38_Witness ==
    /\ Active /\ HandlerCalled(req) /\ Len(SecurityOf(req)[1]) = 2
    /\ LookupSecurityHandler(SecurityOf(req)[1][2].scheme) = Null

\* a request met a requirement object without keys after a passed round
C38_WitnessEmpty ==
    /\ Active /\ req.pc = "done" /\ req.idx = 2 /\ SecurityOf(req)[2] = <<>>
    /\ Answered(req, 500, "ERR_CONFIG")

====
